---- MODULE Spec2Model ----
(***************************************************************************)
(* nano-limit: createLimit() of src/src/limit.ts as a state machine.       *)
(*                                                                         *)
(* Spec is one limiter instance, KeyedSpec a keyed limiter and the limiters *)
(* it creates, CreationSpec a createLimit(options) call and the limiter it *)
(* returns.  TimedSpec and AwaitedSpec are one limiter again, with the     *)
(* event loop's fairness: in TimedSpec the admissions of the last interval *)
(* are recorded, in AwaitedSpec onIdle() is called.                        *)
(* Every handler of the limiter (enqueue, the                              *)
(* completion callbacks, the refill timer callback, an abort watcher,      *)
(* clearQueue, onIdle) runs to completion on the JavaScript event loop, so *)
(* each is one atomic action.  What interleaves is the environment: the    *)
(* caller's submissions, the clock, the computations finishing, abort      *)
(* signals being fired and the timer coming due.                           *)
(***************************************************************************)
EXTENDS Integers, Sequences, FiniteSets, TLC

\* ---------------------------------------------------------------- bounds
MaxOps == 4          \* submissions made to a limiter without a rate
MaxRateOps == 3      \* submissions made to a limiter with a rate (the clock runs too)
MaxPriority == 1     \* priorities are 0..MaxPriority
NumSignals == 1      \* AbortSignals the caller owns
MaxTime == 4         \* the clock runs 0..MaxTime
MaxConcurrency == 2  \* finite concurrency options are 1..MaxConcurrency
MaxRate == 1         \* configured rates are 1..MaxRate
MaxQueueOpt == 1     \* finite maxQueueSize options are 1..MaxQueueOpt
MaxWaiters == 2      \* onIdle() promises pending at one time
Interval == 2        \* the interval option, in clock ticks
NumKeys == 2         \* keys used with a keyed limiter
MaxLimiters == 2     \* limiters a keyed limiter creates
MaxKeyedOps == 3     \* submissions made through a keyed limiter
MaxKeyedTime == 2    \* the clock of a keyed limiter runs 0..MaxKeyedTime
MaxKeyedConcurrency == 1  \* a keyed limiter's concurrency option is 1..MaxKeyedConcurrency
MaxOption == 1       \* numbers given as options run from -1 to MaxOption, in halves
MaxCheckedOps == 2   \* submissions made to a limiter whose construction is examined
MaxTimedOps == 3     \* submissions made to a limiter whose admissions are timed
MaxAwaitedOps == 2   \* submissions made to a limiter whose idleness is awaited

\* ------------------------------------------------------- program constants
Infinity == 1000     \* Number.POSITIVE_INFINITY: above every reachable count
NoRate == 0          \* rate === undefined
NoSignal == 0        \* options.signal === undefined
NoTimer == -1        \* refillTimeoutId === null
NoOp == 0            \* a call that concerns no operation
NoLimiter == 0       \* limiters.get(key) === undefined
NoKey == 0           \* a call that concerns no key
DefaultInterval == 1000  \* interval = 1000

Min(a, b) == IF a < b THEN a ELSE b
Max(a, b) == IF a > b THEN a ELSE b

Ops == 1..Max(Max(Max(MaxOps, MaxRateOps), Max(MaxKeyedOps, MaxCheckedOps)),
           Max(MaxTimedOps, MaxAwaitedOps))
Signals == 1..NumSignals
Priorities == 0..MaxPriority
Waiters == 1..MaxWaiters
Keys == 1..NumKeys
Limiters == 1..MaxLimiters
ConcurrencyOptions == (1..MaxConcurrency) \cup {Infinity}
RateOptions == (1..MaxRate) \cup {NoRate}
QueueSizeOptions == (1..MaxQueueOpt) \cup {Infinity}

VARIABLES
    concurrency,      \* options.concurrency
    rate,             \* options.rate (NoRate when absent)
    maxQueueSize,     \* options.maxQueueSize
    queue,            \* the queue array: operations in queue order
    activeCount,      \* let activeCount
    tokens,           \* let tokens
    lastRefill,       \* let lastRefill
    refillTimeoutId,  \* NoTimer, or the handle setTimeout returned: the time it is due
    timers,           \* the runtime's pending timeouts of this limiter: their due times
    idleResolvers,    \* let idleResolvers: the waiters not yet resolved
    now,              \* Date.now()
    submitted,        \* how many operations enqueue() has built a promise for
    priority,         \* op.priority
    signal,           \* op.signal (NoSignal when absent)
    phase,            \* each operation: "new", "queued", "admitted", "invoked", "gone"
    promise,          \* each operation's promise: "none", "pending", "settled"
    listeners,        \* operations whose onAbort is registered on their signal
    admits,           \* the interval of the last admission and the admissions in it
    span,             \* the length of the time span admissions are recorded over (0: none are)
    recent,           \* with a rate: the times of the admissions less than span old
    aborted,          \* the signals with signal.aborted === true
    dispatching,      \* the signals whose abort event is being dispatched (a stack)
    waiter,           \* each onIdle() promise slot: "none", "pending" ("resolved" within a handler)
    last,             \* the handler that ran last, its arguments and its admission log
    before,           \* the state that handler started from
    limiters,         \* createKeyedLimit's Map: the limiter of each key, or NoLimiter
    instances,        \* the closure state of each limiter the keyed limiter created
    created,          \* how many limiters the keyed limiter has created
    submittedTo,      \* the key and the limiter each keyed operation was submitted to
    klast,            \* the keyed call that ran last: its key, its limiter, what it returned
    options,          \* the argument of a createLimit(options) call
    construction      \* that call: "none" (not made), "returned", "TypeError"

config == <<concurrency, rate, maxQueueSize>>
core == <<queue, activeCount, tokens, lastRefill, refillTimeoutId, timers, idleResolvers>>
opvars == <<submitted, priority, signal, phase, promise, listeners, admits, recent>>
keyed == <<limiters, instances, created, submittedTo, klast>>
creation == <<options, construction>>
vars == <<config, core, opvars, now, aborted, dispatching, waiter, last, keyed, creation,
          span, before>>

\* The state a step starts from, as the step's log keeps it: a limiter's, and
\* a keyed limiter's.
Before ==
    [core |-> core, opvars |-> opvars,
     queue |-> queue, activeCount |-> activeCount, tokens |-> tokens,
     lastRefill |-> lastRefill, refillTimeoutId |-> refillTimeoutId,
     idleResolvers |-> idleResolvers, signal |-> signal,
     phase |-> phase, promise |-> promise, listeners |-> listeners,
     now |-> now, aborted |-> aborted, waiter |-> waiter]
KBefore ==
    [limiters |-> limiters, instances |-> instances, created |-> created,
     submittedTo |-> submittedTo]

Range(s) == {s[i] : i \in 1..Len(s)}
\* Array.prototype.splice(i, 1) and splice(i, 0, x)
RemoveAt(s, i) == SubSeq(s, 1, i - 1) \o SubSeq(s, i + 1, Len(s))
InsertAt(s, i, x) == SubSeq(s, 1, i - 1) \o <<x>> \o SubSeq(s, i, Len(s))
\* Array.prototype.indexOf, 1-based; 0 when absent
IndexOf(s, x) == IF x \in Range(s) THEN CHOOSE i \in 1..Len(s) : s[i] = x ELSE 0

\* op.resolve(x) / op.reject(e): the call is logged; the promise settles on the
\* first call, and a call on a settled promise does nothing.
Settle(S, op, how) ==
    [S EXCEPT !.promise[op] = "settled",
              !.settles = Append(S.settles, [op |-> op, how |-> how,
                                             first |-> S.promise[op] = "pending"])]

\* The limiter's mutable state as one record, so that a handler is a function on it.
\* passes, pops, settles and resolves log what the handler did: the admission
\* passes it ran, the operations those shifted off the queue, the promises it
\* settled, the onIdle() promises it resolved.
Cur ==
    [queue |-> queue, activeCount |-> activeCount, tokens |-> tokens,
     lastRefill |-> lastRefill, refillTimeoutId |-> refillTimeoutId,
     timers |-> timers,
     idleResolvers |-> idleResolvers, priority |-> priority, signal |-> signal,
     phase |-> phase, promise |-> promise, listeners |-> listeners,
     admits |-> admits, recent |-> recent, waiter |-> waiter,
     passes |-> 0, pops |-> <<>>, settles |-> <<>>, resolves |-> <<>>]

\* The interval of the grid anchored at creation time (0) that time t falls in.
Window(t) == t \div Interval

\* Of the admission times ts, those less than span before time t.
Recent(ts, t) == SelectSeq(ts, LAMBDA a : t - a < span)

\* ------------------------------------------------------------ token bucket
\* Mutant: the refill forgets the cap (tokens + rate * periods).
refillTokens_uncapped(S) ==
    IF rate = NoRate THEN S
    ELSE LET elapsed == now - S.lastRefill IN
         IF elapsed >= Interval
         THEN LET periods == elapsed \div Interval IN
              [S EXCEPT !.tokens = S.tokens + rate * periods,
                        !.lastRefill = S.lastRefill + periods * Interval]
         ELSE S

\* Mutant: lastRefill is reset to the current time.
refillTokens_resetsToNow(S) ==
    IF rate = NoRate THEN S
    ELSE LET elapsed == now - S.lastRefill IN
         IF elapsed >= Interval
         THEN LET periods == elapsed \div Interval IN
              [S EXCEPT !.tokens = Min(rate, S.tokens + rate * periods),
                        !.lastRefill = now]
         ELSE S

\* refillTokens(): whole elapsed intervals top the bucket up, capped at rate;
\* lastRefill advances by whole intervals.
refillTokens(S) ==
    IF rate = NoRate THEN S
    ELSE LET elapsed == now - S.lastRefill IN
         IF elapsed >= Interval
         THEN LET periods == elapsed \div Interval IN
              [S EXCEPT !.tokens = Min(rate, S.tokens + rate * periods),
                        !.lastRefill = S.lastRefill + periods * Interval]
         ELSE S

\* Mutant: scheduleRefill() arms a timer whether one is armed or not.
scheduleRefill_ignoresArmed(S) ==
    IF rate = NoRate THEN S
    ELSE IF Len(S.queue) = 0 THEN S
    ELSE LET timeSinceLastRefill == now - S.lastRefill
             timeUntilRefill == Max(0, Interval - timeSinceLastRefill)
         IN [S EXCEPT !.refillTimeoutId = now + timeUntilRefill,
                      !.timers = Append(S.timers, now + timeUntilRefill)]

\* scheduleRefill(): arm the one-shot timer unless one is armed already.
scheduleRefill(S) ==
    IF rate = NoRate \/ S.refillTimeoutId # NoTimer THEN S
    ELSE IF Len(S.queue) = 0 THEN S
    ELSE LET timeSinceLastRefill == now - S.lastRefill
             timeUntilRefill == Max(0, Interval - timeSinceLastRefill)
         IN [S EXCEPT !.refillTimeoutId = now + timeUntilRefill,
                      !.timers = Append(S.timers, now + timeUntilRefill)]

\* resolve() of an onIdle() promise: the call is logged with the counts at that
\* moment; a promise resolves once.
Resolve(S, w, installed) ==
    [S EXCEPT !.waiter[w] = "resolved",
              !.resolves = Append(S.resolves,
                                  [waiter |-> w, installed |-> installed,
                                   first |-> S.waiter[w] # "resolved",
                                   activeCount |-> S.activeCount,
                                   pendingCount |-> Len(S.queue)])]

\* for (const resolve of resolvers) resolve()
RECURSIVE resolveAll(_, _)
resolveAll(S, resolvers) ==
    IF resolvers = <<>> THEN S
    ELSE resolveAll(Resolve(S, Head(resolvers), TRUE), Tail(resolvers))

\* Mutant: checkIdle() does not look at activeCount.
checkIdle_ignoresActive(S) ==
    IF Len(S.queue) = 0 /\ Len(S.idleResolvers) > 0
    THEN resolveAll([S EXCEPT !.idleResolvers = <<>>], S.idleResolvers)
    ELSE S

\* Mutant: checkIdle() resolves the waiters and keeps them in idleResolvers.
checkIdle_keepsResolvers(S) ==
    IF S.activeCount = 0 /\ Len(S.queue) = 0 /\ Len(S.idleResolvers) > 0
    THEN resolveAll(S, S.idleResolvers)
    ELSE S

\* checkIdle(): with nothing active and nothing queued, resolve every waiter.
checkIdle(S) ==
    IF S.activeCount = 0 /\ Len(S.queue) = 0 /\ Len(S.idleResolvers) > 0
    THEN resolveAll([S EXCEPT !.idleResolvers = <<>>], S.idleResolvers)
    ELSE S

\* -------------------------------------------------------------- admission
\* Mutant: the loop does not look at activeCount.
canAdmit_ignoresConcurrency(S) == Len(S.queue) > 0 /\ S.tokens > 0

\* Mutant: the loop does not look at tokens.
canAdmit_ignoresTokens(S) == Len(S.queue) > 0 /\ S.activeCount < concurrency

\* The condition of processQueue's while loop.
canAdmit(S) == Len(S.queue) > 0 /\ S.activeCount < concurrency /\ S.tokens > 0

\* if (op.signal?.aborted)
signalAborted(S, op) == S.signal[op] # NoSignal /\ S.signal[op] \in aborted

\* Mutant: the aborted check comes after activeCount++ and tokens--.
admitStep_abortedTakesSlot(S) ==
    LET op == Head(S.queue)
        S1 == [S EXCEPT !.queue = Tail(S.queue),
                        !.listeners = S.listeners \ {op},
                        !.activeCount = S.activeCount + 1,
                        !.tokens = IF rate # NoRate THEN S.tokens - 1 ELSE S.tokens]
        entry(adm) == [op |-> op, priority |-> S.priority[op], admitted |-> adm,
                       behind |-> [i \in 1..(Len(S.queue) - 1) |->
                                     [op |-> S.queue[i + 1],
                                      priority |-> S.priority[S.queue[i + 1]]]]]
    IN IF signalAborted(S, op)
       THEN Settle([S1 EXCEPT !.phase[op] = "gone",
                              !.pops = Append(S.pops, entry(FALSE))],
                   op, "AbortError")
       ELSE [S1 EXCEPT !.phase[op] = "admitted",
                       !.admits = [window |-> Window(now),
                                   count |-> IF S.admits.window = Window(now)
                                             THEN S.admits.count + 1 ELSE 1],
                       !.recent = IF rate # NoRate
                                  THEN Recent(Append(S.recent, now), now)
                                  ELSE S.recent,
                       !.pops = Append(S.pops, entry(TRUE))]

\* Mutant: the continue is missing, so an aborted operation is rejected and
\* admitted all the same.
admitStep_keepsAborted(S) ==
    LET op == Head(S.queue)
        S1 == [S EXCEPT !.queue = Tail(S.queue),
                        !.listeners = S.listeners \ {op}]
        entry(adm) == [op |-> op, priority |-> S.priority[op], admitted |-> adm,
                       behind |-> [i \in 1..(Len(S.queue) - 1) |->
                                     [op |-> S.queue[i + 1],
                                      priority |-> S.priority[S.queue[i + 1]]]]]
        S2 == IF signalAborted(S, op) THEN Settle(S1, op, "AbortError") ELSE S1
    IN [S2 EXCEPT !.activeCount = S.activeCount + 1,
                  !.tokens = IF rate # NoRate THEN S.tokens - 1 ELSE S.tokens,
                  !.phase[op] = "admitted",
                  !.admits = [window |-> Window(now),
                              count |-> IF S.admits.window = Window(now)
                                        THEN S.admits.count + 1 ELSE 1],
                  !.recent = IF rate # NoRate
                             THEN Recent(Append(S.recent, now), now)
                             ELSE S.recent,
                  !.pops = Append(S.pops, entry(TRUE))]

\* Mutant: an admission takes no token (tokens-- is forgotten).
admitStep_keepsToken(S) ==
    LET op == Head(S.queue)
        S1 == [S EXCEPT !.queue = Tail(S.queue),
                        !.listeners = S.listeners \ {op}]
        entry(adm) == [op |-> op, priority |-> S.priority[op], admitted |-> adm,
                       behind |-> [i \in 1..(Len(S.queue) - 1) |->
                                     [op |-> S.queue[i + 1],
                                      priority |-> S.priority[S.queue[i + 1]]]]]
    IN IF signalAborted(S, op)
       THEN Settle([S1 EXCEPT !.phase[op] = "gone",
                              !.pops = Append(S.pops, entry(FALSE))],
                   op, "AbortError")
       ELSE [S1 EXCEPT !.activeCount = S.activeCount + 1,
                       !.phase[op] = "admitted",
                       !.admits = [window |-> Window(now),
                                   count |-> IF S.admits.window = Window(now)
                                             THEN S.admits.count + 1 ELSE 1],
                       !.recent = IF rate # NoRate
                                  THEN Recent(Append(S.recent, now), now)
                                  ELSE S.recent,
                       !.pops = Append(S.pops, entry(TRUE))]

\* One iteration of the while loop: shift the head, drop its abort listener, then
\* either reject it as aborted or count it active, take a token and start it.
admitStep(S) ==
    LET op == Head(S.queue)
        S1 == [S EXCEPT !.queue = Tail(S.queue),
                        !.listeners = S.listeners \ {op}]
        entry(adm) == [op |-> op, priority |-> S.priority[op], admitted |-> adm,
                       behind |-> [i \in 1..(Len(S.queue) - 1) |->
                                     [op |-> S.queue[i + 1],
                                      priority |-> S.priority[S.queue[i + 1]]]]]
    IN IF signalAborted(S, op)
       THEN Settle([S1 EXCEPT !.phase[op] = "gone",
                              !.pops = Append(S.pops, entry(FALSE))],
                   op, "AbortError")
       ELSE [S1 EXCEPT !.activeCount = S.activeCount + 1,
                       !.tokens = IF rate # NoRate THEN S.tokens - 1 ELSE S.tokens,
                       !.phase[op] = "admitted",
                       !.admits = [window |-> Window(now),
                                   count |-> IF S.admits.window = Window(now)
                                             THEN S.admits.count + 1 ELSE 1],
                       !.recent = IF rate # NoRate
                                  THEN Recent(Append(S.recent, now), now)
                                  ELSE S.recent,
                       !.pops = Append(S.pops, entry(TRUE))]

RECURSIVE admitLoop(_)
admitLoop(S) == IF canAdmit(S) THEN admitLoop(admitStep(S)) ELSE S

\* Mutant: processQueue() never arms the refill timer.
processQueue_neverArms(S) ==
    LET S1 == admitLoop(refillTokens(S))
    IN [checkIdle(S1) EXCEPT !.passes = S.passes + 1]

\* processQueue(): refill, admit while possible, arm the timer when rate limited
\* with work pending, then check idleness.
processQueue(S) ==
    LET S1 == admitLoop(refillTokens(S))
        S2 == IF Len(S1.queue) > 0 /\ S1.tokens <= 0 THEN scheduleRefill(S1) ELSE S1
    IN [checkIdle(S2) EXCEPT !.passes = S.passes + 1]

\* ---------------------------------------------------------------- enqueue
\* Mutant: enqueue() always pushes at the end.
insertIndex_push(S, p) == Len(S.queue) + 1

\* Mutant: the comparison is >=, so an equal priority is overtaken.
insertIndex_notStrict(S, p) ==
    IF \E i \in 1..Len(S.queue) : p >= S.priority[S.queue[i]]
    THEN CHOOSE i \in 1..Len(S.queue) :
            /\ p >= S.priority[S.queue[i]]
            /\ \A j \in 1..(i - 1) : ~(p >= S.priority[S.queue[j]])
    ELSE Len(S.queue) + 1

\* The position enqueue() inserts at: before the first queued operation of
\* strictly lower priority, else at the end (1-based).
insertIndex(S, p) ==
    IF \E i \in 1..Len(S.queue) : p > S.priority[S.queue[i]]
    THEN CHOOSE i \in 1..Len(S.queue) :
            /\ p > S.priority[S.queue[i]]
            /\ \A j \in 1..(i - 1) : ~(p > S.priority[S.queue[j]])
    ELSE Len(S.queue) + 1

\* Mutant: enqueue() does not look at signal.aborted before queueing.
enqueue_noAbortCheck(S, op, p, sg) ==
    LET S0 == [S EXCEPT !.priority[op] = p, !.signal[op] = sg,
                        !.promise[op] = "pending"] IN
    IF Len(S.queue) >= maxQueueSize
    THEN Settle([S0 EXCEPT !.phase[op] = "gone"], op, "QueueFullError")
    ELSE processQueue(
           [S0 EXCEPT !.listeners = IF sg # NoSignal THEN S.listeners \cup {op}
                                    ELSE S.listeners,
                      !.queue = InsertAt(S.queue, insertIndex(S, p), op),
                      !.phase[op] = "queued"])

\* Mutant: the size check is off by one (queue.length > maxQueueSize).
enqueue_fullOffByOne(S, op, p, sg) ==
    LET S0 == [S EXCEPT !.priority[op] = p, !.signal[op] = sg,
                        !.promise[op] = "pending"] IN
    IF sg # NoSignal /\ sg \in aborted
    THEN Settle([S0 EXCEPT !.phase[op] = "gone"], op, "AbortError")
    ELSE IF Len(S.queue) > maxQueueSize
    THEN Settle([S0 EXCEPT !.phase[op] = "gone"], op, "QueueFullError")
    ELSE processQueue(
           [S0 EXCEPT !.listeners = IF sg # NoSignal THEN S.listeners \cup {op}
                                    ELSE S.listeners,
                      !.queue = InsertAt(S.queue, insertIndex(S, p), op),
                      !.phase[op] = "queued"])

\* Mutant: the size check counts the running operations too.
enqueue_countsActive(S, op, p, sg) ==
    LET S0 == [S EXCEPT !.priority[op] = p, !.signal[op] = sg,
                        !.promise[op] = "pending"] IN
    IF sg # NoSignal /\ sg \in aborted
    THEN Settle([S0 EXCEPT !.phase[op] = "gone"], op, "AbortError")
    ELSE IF Len(S.queue) + S.activeCount >= maxQueueSize
    THEN Settle([S0 EXCEPT !.phase[op] = "gone"], op, "QueueFullError")
    ELSE processQueue(
           [S0 EXCEPT !.listeners = IF sg # NoSignal THEN S.listeners \cup {op}
                                    ELSE S.listeners,
                      !.queue = InsertAt(S.queue, insertIndex(S, p), op),
                      !.phase[op] = "queued"])

\* The promise executor of enqueue(fn, {priority, signal}) for operation op.
enqueue(S, op, p, sg) ==
    LET S0 == [S EXCEPT !.priority[op] = p, !.signal[op] = sg,
                        !.promise[op] = "pending"] IN
    IF sg # NoSignal /\ sg \in aborted
    THEN Settle([S0 EXCEPT !.phase[op] = "gone"], op, "AbortError")
    ELSE IF Len(S.queue) >= maxQueueSize
    THEN Settle([S0 EXCEPT !.phase[op] = "gone"], op, "QueueFullError")
    ELSE processQueue(
           [S0 EXCEPT !.listeners = IF sg # NoSignal THEN S.listeners \cup {op}
                                    ELSE S.listeners,
                      !.queue = InsertAt(S.queue, insertIndex(S, p), op),
                      !.phase[op] = "queued"])

\* Mutant: onAbort rejects but leaves the operation in the queue.
onAbort_noSplice(S, op) ==
    LET index == IndexOf(S.queue, op)
        S1 == [S EXCEPT !.listeners = S.listeners \ {op}]
    IN IF index # 0 THEN Settle(S1, op, "AbortError") ELSE S1

\* op.onAbort: the listener is once, so it is gone when it runs; an operation
\* still in the queue is spliced out and rejected.
onAbort(S, op) ==
    LET index == IndexOf(S.queue, op)
        S1 == [S EXCEPT !.listeners = S.listeners \ {op}]
    IN IF index # 0
       THEN Settle([S1 EXCEPT !.queue = RemoveAt(S.queue, index),
                              !.phase[op] = "gone"],
                   op, "AbortError")
       ELSE S1

\* ------------------------------------------------------------- clearQueue
\* Mutant: the loop never rejects, whatever the flag.
RECURSIVE clearLoop_neverRejects(_, _)
clearLoop_neverRejects(S, reject) ==
    IF Len(S.queue) > 0
    THEN LET op == Head(S.queue) IN
         clearLoop_neverRejects([S EXCEPT !.queue = Tail(S.queue),
                                          !.listeners = S.listeners \ {op},
                                          !.phase[op] = "gone"],
                                reject)
    ELSE S

\* Mutant: the loop rejects whatever the flag.
RECURSIVE clearLoop_alwaysRejects(_, _)
clearLoop_alwaysRejects(S, reject) ==
    IF Len(S.queue) > 0
    THEN LET op == Head(S.queue) IN
         clearLoop_alwaysRejects(
             Settle([S EXCEPT !.queue = Tail(S.queue),
                              !.listeners = S.listeners \ {op},
                              !.phase[op] = "gone"],
                    op, "QueueClearedError"),
             reject)
    ELSE S

\* Mutant: the loop gives back a slot for every operation it removes.
RECURSIVE clearLoop_releasesSlots(_, _)
clearLoop_releasesSlots(S, reject) ==
    IF Len(S.queue) > 0
    THEN LET op == Head(S.queue)
             S1 == [S EXCEPT !.queue = Tail(S.queue),
                             !.listeners = S.listeners \ {op},
                             !.activeCount = S.activeCount - 1,
                             !.phase[op] = "gone"]
         IN clearLoop_releasesSlots(
                IF reject THEN Settle(S1, op, "QueueClearedError") ELSE S1, reject)
    ELSE S

\* Mutant: the loop leaves the abort listeners registered.
RECURSIVE clearLoop_keepsListeners(_, _)
clearLoop_keepsListeners(S, reject) ==
    IF Len(S.queue) > 0
    THEN LET op == Head(S.queue)
             S1 == [S EXCEPT !.queue = Tail(S.queue),
                             !.phase[op] = "gone"]
         IN clearLoop_keepsListeners(
                IF reject THEN Settle(S1, op, "QueueClearedError") ELSE S1, reject)
    ELSE S

\* The while loop of clearQueue(reject).
RECURSIVE clearLoop(_, _)
clearLoop(S, reject) ==
    IF Len(S.queue) > 0
    THEN LET op == Head(S.queue)
             S1 == [S EXCEPT !.queue = Tail(S.queue),
                             !.listeners = S.listeners \ {op},
                             !.phase[op] = "gone"]
         IN clearLoop(IF reject THEN Settle(S1, op, "QueueClearedError") ELSE S1,
                      reject)
    ELSE S

\* if (refillTimeoutId !== null) { clearTimeout(refillTimeoutId); ... = null }
cancelRefill(S) ==
    IF S.refillTimeoutId # NoTimer
    THEN LET index == IndexOf(S.timers, S.refillTimeoutId) IN
         [S EXCEPT !.timers = IF index # 0 THEN RemoveAt(S.timers, index) ELSE S.timers,
                   !.refillTimeoutId = NoTimer]
    ELSE S

\* Mutant: clearQueue() returns without checking idleness.
clearQueue_noIdleCheck(S, reject) == clearLoop(cancelRefill(S), reject)

\* clearQueue(reject): cancel the timer, empty the queue, check idleness.
clearQueue(S, reject) == checkIdle(clearLoop(cancelRefill(S), reject))

\* ------------------------------------------------- completion and the timer
\* Mutant: the continuation rejects with AbortError when the signal has fired.
settled_checksAbort(S, op, ok) ==
    LET how == IF signalAborted(S, op) THEN "AbortError"
               ELSE IF ok THEN "value" ELSE "error"
        S1 == Settle([S EXCEPT !.activeCount = S.activeCount - 1,
                               !.phase[op] = "gone"],
                     op, how)
    IN checkIdle(processQueue(S1))

\* Mutant: the rejection continuation forgets activeCount--.
settled_failureKeepsSlot(S, op, ok) ==
    LET S1 == Settle([S EXCEPT !.activeCount = IF ok THEN S.activeCount - 1
                                               ELSE S.activeCount,
                               !.phase[op] = "gone"],
                     op, IF ok THEN "value" ELSE "error")
    IN checkIdle(processQueue(S1))

\* Mutant: the continuations do not call processQueue().
settled_noPass(S, op, ok) ==
    LET S1 == Settle([S EXCEPT !.activeCount = S.activeCount - 1,
                               !.phase[op] = "gone"],
                     op, IF ok THEN "value" ELSE "error")
    IN checkIdle(S1)

\* The two continuations of the promise chain an admitted operation runs under.
settled(S, op, ok) ==
    LET S1 == Settle([S EXCEPT !.activeCount = S.activeCount - 1,
                               !.phase[op] = "gone"],
                     op, IF ok THEN "value" ELSE "error")
    IN checkIdle(processQueue(S1))

\* The setTimeout callback of scheduleRefill.
refillTimeout(S) ==
    processQueue(refillTokens([S EXCEPT !.refillTimeoutId = NoTimer]))

\* Mutant: onIdle() installs a waiter whatever the counts are.
onIdle_alwaysInstalls(S, w) ==
    [S EXCEPT !.waiter[w] = "pending",
              !.idleResolvers = Append(S.idleResolvers, w)]

\* onIdle() as seen by waiter w.
onIdle(S, w) ==
    IF S.activeCount = 0 /\ Len(S.queue) = 0
    THEN Resolve(S, w, FALSE)
    ELSE [S EXCEPT !.waiter[w] = "pending",
                   !.idleResolvers = Append(S.idleResolvers, w)]

\* --------------------------------------------------------- abort dispatch
\* AbortSignal dispatches "abort" to its listeners one after another, in the
\* order they were added; a listener of the caller's may call the limiter in
\* between.  A dispatch is over when none of the limiter's listeners is left on
\* the signal; Unwind pops the finished dispatches off the stack.
hasListener(ls, sgs, s) == \E o \in ls : sgs[o] = s

RECURSIVE Unwind(_, _, _)
Unwind(stack, ls, sgs) ==
    IF stack = <<>> THEN stack
    ELSE IF hasListener(ls, sgs, Head(stack)) THEN stack
    ELSE Unwind(Tail(stack), ls, sgs)

\* The next onAbort the innermost dispatch will call: the earliest registered.
nextListener(s) ==
    CHOOSE o \in listeners :
        /\ signal[o] = s
        /\ \A q \in listeners : signal[q] = s => o <= q

\* Timers and promise continuations run only when no JavaScript is on the stack.
stackEmpty == dispatching = <<>>

\* ---------------------------------------------------------------- actions
Call(act, op, sg, flag) == [act |-> act, op |-> op, sig |-> sg, flag |-> flag]
NoKeyedCall == [key |-> NoKey, limiter |-> NoLimiter, ret |-> FALSE]

\* An operation's record is garbage once nothing refers to it: priority is read
\* only while queued; signal is read while queued and by a listener still
\* registered, and is kept here for as long as the caller's promise is pending.
livePriority(S, o) == IF S.phase[o] = "queued" THEN S.priority[o] ELSE 0
liveSignal(S, o) ==
    IF S.promise[o] = "pending" \/ S.phase[o] = "queued" \/ o \in S.listeners
    THEN S.signal[o] ELSE NoSignal

\* A resolved onIdle() promise is out of the limiter's hands: its slot is free.
liveWaiter(S, w) == IF S.waiter[w] = "pending" THEN "pending" ELSE "none"

\* ------------------------------------------------------------ createLimit
\* An option's value: undefined, Infinity, or a number given in halves (twice),
\* so that 3/2 can be told from an integer.
Undefined == [kind |-> "undefined", twice |-> 0]
PlusInfinity == [kind |-> "Infinity", twice |-> 0]
Number(twice) == [kind |-> "number", twice |-> twice]
DefaultOptions == [concurrency |-> Undefined, rate |-> Undefined,
                   interval |-> Undefined, maxQueueSize |-> Undefined]

\* const { concurrency = Infinity, rate, interval = 1000, maxQueueSize = Infinity }
destructure(o) ==
    [concurrency |-> IF o.concurrency = Undefined THEN PlusInfinity ELSE o.concurrency,
     rate |-> o.rate,
     interval |-> IF o.interval = Undefined THEN Number(2 * DefaultInterval)
                  ELSE o.interval,
     maxQueueSize |-> IF o.maxQueueSize = Undefined THEN PlusInfinity
                      ELSE o.maxQueueSize]

\* x <= 0 and Number.isInteger(x) for a number or Infinity
lessOrEqualZero(x) == x.kind = "number" /\ x.twice <= 0
isInteger(x) == x.kind = "number" /\ x.twice % 2 = 0

\* Mutant: the checks are x < 0, so zero passes.
validate_allowsZero(o) ==
    LET d == destructure(o)
        bad(x) == (x.kind = "number" /\ x.twice < 0) \/ ~isInteger(x)
    IN IF d.concurrency # PlusInfinity /\ bad(d.concurrency)
       THEN "concurrency must be a positive integer or Infinity"
       ELSE IF d.rate # Undefined /\ bad(d.rate)
       THEN "rate must be a positive integer"
       ELSE IF d.interval.kind = "number" /\ d.interval.twice < 0
       THEN "interval must be positive"
       ELSE IF d.maxQueueSize # PlusInfinity /\ bad(d.maxQueueSize)
       THEN "maxQueueSize must be a positive integer or Infinity"
       ELSE "ok"

\* The four checks of createLimit, in order: the message of the TypeError
\* thrown, or "ok".
validate(o) ==
    LET d == destructure(o)
        bad(x) == lessOrEqualZero(x) \/ ~isInteger(x)
    IN IF d.concurrency # PlusInfinity /\ bad(d.concurrency)
       THEN "concurrency must be a positive integer or Infinity"
       ELSE IF d.rate # Undefined /\ bad(d.rate)
       THEN "rate must be a positive integer"
       ELSE IF lessOrEqualZero(d.interval)
       THEN "interval must be positive"
       ELSE IF d.maxQueueSize # PlusInfinity /\ bad(d.maxQueueSize)
       THEN "maxQueueSize must be a positive integer or Infinity"
       ELSE "ok"

\* An option that passed the checks, as the limiter holds it.
held(x) == IF x.kind = "number" THEN x.twice \div 2 ELSE Infinity

\* The closure state of createLimit(options) called at the current time.
newLimiter ==
    [queue |-> <<>>, activeCount |-> 0,
     tokens |-> IF rate # NoRate THEN rate ELSE Infinity,
     lastRefill |-> now, refillTimeoutId |-> NoTimer, timers |-> <<>>,
     idleResolvers |-> <<>>,
     priority |-> [o \in Ops |-> 0], signal |-> [o \in Ops |-> NoSignal],
     phase |-> [o \in Ops |-> "new"], promise |-> [o \in Ops |-> "none"],
     listeners |-> {}, admits |-> [window |-> 0, count |-> 0],
     waiter |-> [w \in Waiters |-> "none"]]

\* Store the state a handler leaves behind.
Commit(S, call, stack) ==
    /\ queue' = S.queue
    /\ activeCount' = S.activeCount
    /\ tokens' = S.tokens
    /\ lastRefill' = S.lastRefill
    /\ refillTimeoutId' = S.refillTimeoutId
    /\ timers' = S.timers
    /\ idleResolvers' = S.idleResolvers
    /\ priority' = [o \in Ops |-> livePriority(S, o)]
    /\ signal' = [o \in Ops |-> liveSignal(S, o)]
    /\ phase' = S.phase
    /\ promise' = S.promise
    /\ listeners' = S.listeners
    /\ admits' = S.admits
    /\ recent' = S.recent
    /\ waiter' = [w \in Waiters |-> liveWaiter(S, w)]
    /\ dispatching' = Unwind(stack, S.listeners, S.signal)
    /\ before' = Before
    /\ last' = [call |-> call, passes |-> S.passes, pops |-> S.pops,
                settles |-> S.settles, resolves |-> S.resolves]

\* A limiter just created, and a keyed limiter just created with the same options.
Created ==
    /\ concurrency \in ConcurrencyOptions
    /\ rate \in RateOptions
    /\ maxQueueSize \in QueueSizeOptions
    /\ queue = <<>>
    /\ activeCount = 0
    /\ tokens = IF rate # NoRate THEN rate ELSE Infinity
    /\ now = 0
    /\ lastRefill = now
    /\ refillTimeoutId = NoTimer
    /\ timers = <<>>
    /\ idleResolvers = <<>>
    /\ submitted = 0
    /\ priority = [o \in Ops |-> 0]
    /\ signal = [o \in Ops |-> NoSignal]
    /\ phase = [o \in Ops |-> "new"]
    /\ promise = [o \in Ops |-> "none"]
    /\ listeners = {}
    /\ admits = [window |-> 0, count |-> 0]
    /\ recent = <<>>
    /\ aborted = {}
    /\ dispatching = <<>>
    /\ waiter = [w \in Waiters |-> "none"]
    /\ last = [call |-> Call("createLimit", NoOp, NoSignal, FALSE),
               passes |-> 0, pops |-> <<>>, settles |-> <<>>, resolves |-> <<>>]
    /\ limiters = [k \in Keys |-> NoLimiter]
    /\ instances = [i \in Limiters |-> newLimiter]
    /\ created = 0
    /\ submittedTo = [o \in Ops |-> [key |-> NoKey, limiter |-> NoLimiter]]
    /\ klast = NoKeyedCall

\* The option sets a single limiter is explored with: each concurrency option
\* without a rate, and with a rate the least and the greatest finite one; the
\* queue is bounded in one of each pair.
Explored ==
    \/ rate = NoRate /\ concurrency = 1 /\ maxQueueSize = Infinity
    \/ rate = NoRate /\ concurrency \in 2..MaxConcurrency /\ maxQueueSize # Infinity
    \/ rate = NoRate /\ concurrency = Infinity /\ maxQueueSize = Infinity
    \/ rate # NoRate /\ concurrency = 1 /\ maxQueueSize # Infinity
    \/ rate # NoRate /\ concurrency \in 2..MaxConcurrency /\ maxQueueSize = Infinity

Init ==
    /\ Created
    /\ before = Before
    /\ Explored
    /\ span = 0
    /\ options = DefaultOptions
    /\ construction = "returned"

\* limit(fn, {priority, signal}) with a callable fn: the next operation.
Enqueue(p, sg) ==
    /\ submitted < (IF rate = NoRate THEN MaxOps ELSE MaxRateOps)
    /\ submitted' = submitted + 1
    /\ Commit(enqueue(Cur, submitted + 1, p, sg),
              Call("enqueue", submitted + 1, sg, TRUE), dispatching)
    /\ UNCHANGED <<config, creation, span, keyed, now, aborted>>

\* limit(x) with x not a function: TypeError is thrown before a promise exists.
EnqueueNotFunction ==
    /\ Commit(Cur, Call("enqueueThrow", NoOp, NoSignal, FALSE), dispatching)
    /\ UNCHANGED <<config, creation, span, keyed, now, aborted, submitted>>

\* The microtask that calls op.fn().
Invoke(op) ==
    /\ stackEmpty
    /\ phase[op] = "admitted"
    /\ Commit([Cur EXCEPT !.phase[op] = "invoked"],
              Call("fn", op, signal[op], FALSE), dispatching)
    /\ UNCHANGED <<config, creation, span, keyed, now, aborted, submitted>>

\* op.fn() has returned or thrown: the matching continuation runs.
Complete(op, ok) ==
    /\ stackEmpty
    /\ phase[op] = "invoked"
    /\ Commit(settled(Cur, op, ok), Call("settled", op, signal[op], ok), dispatching)
    /\ UNCHANGED <<config, creation, span, keyed, now, aborted, submitted>>

\* A pending timeout fires, at its due time or later, and is pending no more.
RefillTimeout ==
    /\ stackEmpty
    /\ \E i \in 1..Len(timers) :
         /\ now >= timers[i]
         /\ Commit(refillTimeout([Cur EXCEPT !.timers = RemoveAt(timers, i)]),
                   Call("refillTimeout", NoOp, NoSignal, FALSE), dispatching)
    /\ UNCHANGED <<config, creation, span, keyed, now, aborted, submitted>>

\* controller.abort(): the signal becomes aborted and its dispatch begins.
Abort(s) ==
    /\ s \notin aborted
    /\ aborted' = aborted \cup {s}
    /\ Commit(Cur, Call("abort", NoOp, s, FALSE), <<s>> \o dispatching)
    /\ UNCHANGED <<config, creation, span, keyed, now, submitted>>

\* The innermost dispatch calls the next onAbort.
OnAbort ==
    /\ dispatching # <<>>
    /\ LET op == nextListener(Head(dispatching)) IN
       Commit(onAbort(Cur, op), Call("onAbort", op, signal[op], FALSE), dispatching)
    /\ UNCHANGED <<config, creation, span, keyed, now, aborted, submitted>>

\* limit.clearQueue(reject)
ClearQueue(reject) ==
    /\ Commit(clearQueue(Cur, reject), Call("clearQueue", NoOp, NoSignal, reject),
              dispatching)
    /\ UNCHANGED <<config, creation, span, keyed, now, aborted, submitted>>

\* limit.onIdle(): the next waiter.
OnIdle ==
    /\ \E w \in Waiters :
         /\ waiter[w] = "none"
         /\ \A v \in Waiters : v < w => waiter[v] # "none"
         /\ Commit(onIdle(Cur, w), Call("onIdle", w, NoSignal, FALSE), dispatching)
    /\ UNCHANGED <<config, creation, span, keyed, now, aborted, submitted>>

\* The clock advances.  The limiter reads it only when a rate is set.
Tick ==
    /\ rate # NoRate
    /\ now < MaxTime
    /\ now' = now + 1
    /\ before' = Before
    /\ last' = [call |-> Call("tick", NoOp, NoSignal, FALSE),
                passes |-> 0, pops |-> <<>>, settles |-> <<>>, resolves |-> <<>>]
    /\ klast' = NoKeyedCall
    /\ recent' = Recent(recent, now + 1)
    /\ UNCHANGED <<config, creation, span, core, aborted, dispatching, waiter>>
    /\ UNCHANGED <<submitted, priority, signal, phase, promise, listeners, admits>>
    /\ UNCHANGED <<limiters, instances, created, submittedTo>>

Next ==
    \/ \E p \in Priorities, sg \in Signals \cup {NoSignal} : Enqueue(p, sg)
    \/ EnqueueNotFunction
    \/ \E op \in Ops : Invoke(op)
    \/ \E op \in Ops, ok \in BOOLEAN : Complete(op, ok)
    \/ RefillTimeout
    \/ \E s \in Signals : Abort(s)
    \/ OnAbort
    \/ \E reject \in BOOLEAN : ClearQueue(reject)
    \/ OnIdle
    \/ Tick

Spec == Init /\ [][Next]_vars

\* ------------------------------------------------------- createKeyedLimit
\* A limiter of the keyed limiter as the record the handlers work on, and back:
\* the logs start empty, and what nothing reads any more is dropped (op.signal
\* is read by the admission loop and by onAbort only).
Open(R) ==
    [queue |-> R.queue, activeCount |-> R.activeCount, tokens |-> R.tokens,
     lastRefill |-> R.lastRefill, refillTimeoutId |-> R.refillTimeoutId,
     timers |-> R.timers,
     idleResolvers |-> R.idleResolvers, priority |-> R.priority, signal |-> R.signal,
     phase |-> R.phase, promise |-> R.promise, listeners |-> R.listeners,
     admits |-> R.admits, recent |-> <<>>, waiter |-> R.waiter,
     passes |-> 0, pops |-> <<>>, settles |-> <<>>, resolves |-> <<>>]
Close(S) ==
    [queue |-> S.queue, activeCount |-> S.activeCount, tokens |-> S.tokens,
     lastRefill |-> S.lastRefill, refillTimeoutId |-> S.refillTimeoutId,
     timers |-> S.timers, idleResolvers |-> S.idleResolvers,
     priority |-> [o \in Ops |-> livePriority(S, o)],
     signal |-> [o \in Ops |-> IF S.phase[o] = "queued" \/ o \in S.listeners
                                THEN S.signal[o] ELSE NoSignal],
     phase |-> S.phase, promise |-> S.promise, listeners |-> S.listeners,
     admits |-> [window |-> 0, count |-> 0],
     waiter |-> [w \in Waiters |-> liveWaiter(S, w)]]

\* The keyed limiter's state as one record; ret is what the call returns.
KCur == [limiters |-> limiters, instances |-> instances, created |-> created,
         ret |-> NoLimiter]

\* Mutant: getOrCreate creates a limiter whether the key has one or not.
getOrCreate_alwaysCreates(K, key) ==
    LET limiter == K.created + 1 IN
    [K EXCEPT !.created = limiter,
              !.instances[limiter] = newLimiter,
              !.limiters[key] = limiter,
              !.ret = limiter]

\* Mutant: a key without a limiter is given the limiter of another key.
getOrCreate_sharesLimiter(K, key) ==
    IF K.limiters[key] # NoLimiter
    THEN [K EXCEPT !.ret = K.limiters[key]]
    ELSE IF \E k \in Keys : K.limiters[k] # NoLimiter
    THEN LET limiter == K.limiters[CHOOSE k \in Keys : K.limiters[k] # NoLimiter] IN
         [K EXCEPT !.limiters[key] = limiter, !.ret = limiter]
    ELSE LET limiter == K.created + 1 IN
         [K EXCEPT !.created = limiter,
                   !.instances[limiter] = newLimiter,
                   !.limiters[key] = limiter,
                   !.ret = limiter]

\* getOrCreate(key): the limiter of the key, created and stored when absent.
getOrCreate(K, key) ==
    IF K.limiters[key] # NoLimiter
    THEN [K EXCEPT !.ret = K.limiters[key]]
    ELSE LET limiter == K.created + 1 IN
         [K EXCEPT !.created = limiter,
                   !.instances[limiter] = newLimiter,
                   !.limiters[key] = limiter,
                   !.ret = limiter]

\* The listeners and signals of all the limiters together, for the dispatch.
allListeners(insts) == UNION {insts[i].listeners : i \in Limiters}
allSignals(insts, sub) ==
    [o \in Ops |-> IF sub[o].limiter = NoLimiter THEN NoSignal
                   ELSE insts[sub[o].limiter].signal[o]]

\* Store what a keyed call, or a handler of limiter i, leaves behind.
KCommit(K, i, S, call, key, ret, stack, sub) ==
    LET insts == IF i = NoLimiter THEN K.instances
                 ELSE [K.instances EXCEPT ![i] = Close(S)] IN
    /\ limiters' = K.limiters
    /\ instances' = insts
    /\ created' = K.created
    /\ submittedTo' = sub
    /\ dispatching' = Unwind(stack, allListeners(insts), allSignals(insts, sub))
    /\ before' = KBefore
    /\ last' = [call |-> call, passes |-> S.passes, pops |-> S.pops,
                settles |-> S.settles, resolves |-> S.resolves]
    /\ klast' = [key |-> key, limiter |-> i, ret |-> ret]

single == <<core, priority, signal, phase, promise, listeners, admits, recent, waiter>>

NoLogs == [passes |-> 0, pops |-> <<>>, settles |-> <<>>, resolves |-> <<>>]
canCreate(key) == limiters[key] # NoLimiter \/ created < MaxLimiters

\* keyedLimit(key, fn, {priority, signal}) with a callable fn.
KeyedCall(key, p, sg) ==
    /\ submitted < MaxKeyedOps
    /\ canCreate(key)
    /\ LET op == submitted + 1
           K == getOrCreate(KCur, key)
           S == enqueue(Open(K.instances[K.ret]), op, p, sg)
       IN /\ submitted' = op
          /\ KCommit(K, K.ret, S, Call("call", op, sg, TRUE), key, TRUE, dispatching,
                     [submittedTo EXCEPT ![op] = [key |-> key, limiter |-> K.ret]])
    /\ UNCHANGED <<config, creation, span, single, now, aborted>>

\* keyedLimit.get(key)
KeyedGet(key) ==
    /\ canCreate(key)
    /\ LET K == getOrCreate(KCur, key) IN
       KCommit(K, K.ret, Open(K.instances[K.ret]),
               Call("get", NoOp, NoSignal, FALSE), key, TRUE, dispatching, submittedTo)
    /\ UNCHANGED <<config, creation, span, single, now, aborted, submitted>>

\* Mutant: delete clears the limiter's queue and leaves the key in the map.
keyedDelete_keepsKey(K, key) ==
    LET limiter == K.limiters[key] IN
    IF limiter # NoLimiter
    THEN [limiters |-> K.limiters, limiter |-> limiter,
          S |-> clearQueue(Open(K.instances[limiter]), TRUE), ret |-> TRUE]
    ELSE [limiters |-> K.limiters, limiter |-> NoLimiter, S |-> NoLogs, ret |-> FALSE]

\* keyedLimit.delete(key): the map without the key, the limiter that was cleared
\* and as what, and the value returned.
keyedDelete(K, key) ==
    LET limiter == K.limiters[key] IN
    IF limiter # NoLimiter
    THEN [limiters |-> [K.limiters EXCEPT ![key] = NoLimiter], limiter |-> limiter,
          S |-> clearQueue(Open(K.instances[limiter]), TRUE), ret |-> TRUE]
    ELSE [limiters |-> K.limiters, limiter |-> NoLimiter, S |-> NoLogs, ret |-> FALSE]

KeyedDelete(key) ==
    /\ LET D == keyedDelete(KCur, key) IN
       KCommit([KCur EXCEPT !.limiters = D.limiters], D.limiter, D.S,
               Call("delete", NoOp, NoSignal, FALSE), key, D.ret, dispatching,
               submittedTo)
    /\ UNCHANGED <<config, creation, span, single, now, aborted, submitted>>

\* Mutant: clear() clears the queue of the first limiter only.
clearEach_firstOnly(insts, ids, logs) ==
    IF ids = {} THEN [instances |-> insts, logs |-> logs]
    ELSE LET i == CHOOSE j \in ids : \A k \in ids : j <= k
             S == clearQueue(Open(insts[i]), TRUE)
         IN [instances |-> [insts EXCEPT ![i] = Close(S)],
             logs |-> [logs EXCEPT !.settles = S.settles, !.resolves = S.resolves]]

\* for (const limiter of limiters.values()) limiter.clearQueue(true): a Map is
\* iterated in insertion order, which is the order the limiters were created in.
RECURSIVE clearEach(_, _, _)
clearEach(insts, ids, logs) ==
    IF ids = {} THEN [instances |-> insts, logs |-> logs]
    ELSE LET i == CHOOSE j \in ids : \A k \in ids : j <= k
             S == clearQueue([Open(insts[i]) EXCEPT !.settles = logs.settles,
                                                    !.resolves = logs.resolves],
                             TRUE)
         IN clearEach([insts EXCEPT ![i] = Close(S)], ids \ {i},
                      [logs EXCEPT !.settles = S.settles, !.resolves = S.resolves])

\* keyedLimit.clear()
KeyedClear ==
    /\ LET R == clearEach(instances, {limiters[k] : k \in Keys} \ {NoLimiter}, NoLogs) IN
       /\ instances' = R.instances
       /\ limiters' = [k \in Keys |-> NoLimiter]
       /\ dispatching' = Unwind(dispatching, allListeners(R.instances),
                                allSignals(R.instances, submittedTo))
       /\ before' = KBefore
       /\ last' = [call |-> Call("clear", NoOp, NoSignal, FALSE),
                   passes |-> 0, pops |-> <<>>, settles |-> R.logs.settles,
                   resolves |-> R.logs.resolves]
       /\ klast' = NoKeyedCall
    /\ UNCHANGED <<config, creation, span, single, now, aborted, submitted, created, submittedTo>>

\* The events of a limiter the keyed limiter created, in the map or evicted.
KInvoke(op) ==
    /\ stackEmpty
    /\ submittedTo[op].limiter # NoLimiter
    /\ LET i == submittedTo[op].limiter
           S == Open(instances[i])
       IN /\ S.phase[op] = "admitted"
          /\ KCommit(KCur, i, [S EXCEPT !.phase[op] = "invoked"],
                     Call("fn", op, S.signal[op], FALSE), submittedTo[op].key, FALSE,
                     dispatching, submittedTo)
    /\ UNCHANGED <<config, creation, span, single, now, aborted, submitted>>

KComplete(op, ok) ==
    /\ stackEmpty
    /\ submittedTo[op].limiter # NoLimiter
    /\ LET i == submittedTo[op].limiter
           S == Open(instances[i])
       IN /\ S.phase[op] = "invoked"
          /\ KCommit(KCur, i, settled(S, op, ok),
                     Call("settled", op, S.signal[op], ok), submittedTo[op].key, FALSE,
                     dispatching, submittedTo)
    /\ UNCHANGED <<config, creation, span, single, now, aborted, submitted>>

KRefillTimeout(i) ==
    /\ stackEmpty
    /\ i <= created
    /\ \E t \in 1..Len(instances[i].timers) :
         /\ now >= instances[i].timers[t]
         /\ KCommit(KCur, i,
                    refillTimeout([Open(instances[i]) EXCEPT
                                     !.timers = RemoveAt(instances[i].timers, t)]),
                    Call("refillTimeout", NoOp, NoSignal, FALSE), NoKey, FALSE,
                    dispatching, submittedTo)
    /\ UNCHANGED <<config, creation, span, single, now, aborted, submitted>>

KAbort(s) ==
    /\ s \notin aborted
    /\ aborted' = aborted \cup {s}
    /\ KCommit(KCur, NoLimiter, NoLogs, Call("abort", NoOp, s, FALSE), NoKey, FALSE,
               <<s>> \o dispatching, submittedTo)
    /\ UNCHANGED <<config, creation, span, single, now, submitted>>

KOnAbort ==
    /\ dispatching # <<>>
    /\ LET sgs == allSignals(instances, submittedTo)
           op == CHOOSE o \in allListeners(instances) :
                    /\ sgs[o] = Head(dispatching)
                    /\ \A q \in allListeners(instances) :
                          sgs[q] = Head(dispatching) => o <= q
           i == submittedTo[op].limiter
       IN KCommit(KCur, i, onAbort(Open(instances[i]), op),
                  Call("onAbort", op, sgs[op], FALSE), submittedTo[op].key, FALSE,
                  dispatching, submittedTo)
    /\ UNCHANGED <<config, creation, span, single, now, aborted, submitted>>

\* The clock advances; a keyed limiter's clock is read at whole intervals.
KTick ==
    /\ rate # NoRate
    /\ now < MaxKeyedTime
    /\ now' = now + Interval
    /\ before' = KBefore
    /\ last' = [call |-> Call("tick", NoOp, NoSignal, FALSE),
                passes |-> 0, pops |-> <<>>, settles |-> <<>>, resolves |-> <<>>]
    /\ klast' = NoKeyedCall
    /\ UNCHANGED <<config, creation, span, single, submitted, aborted, dispatching>>
    /\ UNCHANGED <<limiters, instances, created, submittedTo>>

KeyedNext ==
    \/ \E key \in Keys, p \in Priorities, sg \in Signals \cup {NoSignal} :
          KeyedCall(key, p, sg)
    \/ \E key \in Keys : KeyedGet(key)
    \/ \E key \in Keys : KeyedDelete(key)
    \/ KeyedClear
    \/ \E op \in Ops : KInvoke(op)
    \/ \E op \in Ops, ok \in BOOLEAN : KComplete(op, ok)
    \/ \E i \in Limiters : KRefillTimeout(i)
    \/ \E s \in Signals : KAbort(s)
    \/ KOnAbort
    \/ KTick

\* createKeyedLimit(options): the options are checked by createLimit, when the
\* first limiter is created; maxQueueSize is left at its default.
KeyedInit ==
    /\ Created
    /\ before = KBefore
    /\ span = 0
    /\ options = DefaultOptions
    /\ construction = "returned"
    /\ concurrency \in 1..MaxKeyedConcurrency
    /\ maxQueueSize = Infinity

KeyedSpec == KeyedInit /\ [][KeyedNext]_vars

\* ----------------------------------------------- createLimit(options) called
OptionValues ==
    {Undefined, PlusInfinity} \cup {Number(t) : t \in (-2)..(2 * MaxOption)}
OptionRecords ==
    [concurrency : OptionValues, rate : OptionValues, interval : OptionValues,
     maxQueueSize : OptionValues]

\* createLimit(options): a TypeError, or the limiter with the options it holds.
CreateLimit ==
    /\ construction = "none"
    /\ LET d == destructure(options) IN
       IF validate(options) = "ok"
       THEN /\ construction' = "returned"
            /\ concurrency' = held(d.concurrency)
            /\ rate' = IF d.rate = Undefined THEN NoRate ELSE held(d.rate)
            /\ maxQueueSize' = held(d.maxQueueSize)
            /\ tokens' = IF d.rate # Undefined THEN held(d.rate) ELSE Infinity
            /\ lastRefill' = now
       ELSE /\ construction' = "TypeError"
            /\ UNCHANGED <<config, tokens, lastRefill>>
    /\ before' = Before
    /\ last' = [call |-> Call("createLimit", NoOp, NoSignal, FALSE),
                passes |-> 0, pops |-> <<>>, settles |-> <<>>, resolves |-> <<>>]
    /\ UNCHANGED <<options, queue, activeCount, refillTimeoutId, timers, idleResolvers>>
    /\ UNCHANGED <<opvars, now, aborted, dispatching, waiter, keyed, span>>

\* Before the call there is no limiter: its variables hold what they are
\* declared with.
CreationInit ==
    /\ Created
    /\ before = Before
    /\ span = 0
    /\ concurrency = Infinity
    /\ rate = NoRate
    /\ maxQueueSize = Infinity
    /\ options \in OptionRecords
    /\ construction = "none"

\* The call, then submissions to the limiter it returned.
CreationNext ==
    \/ CreateLimit
    \/ /\ construction = "returned"
       /\ submitted < MaxCheckedOps
       /\ \E p \in Priorities, sg \in Signals \cup {NoSignal} : Enqueue(p, sg)
    \/ /\ construction = "returned"
       /\ EnqueueNotFunction

CreationSpec == CreationInit /\ [][CreationNext]_vars

\* ------------------------------------------- a limiter whose admissions are timed
\* Time passes until the earliest pending timeout is due.
Elapse ==
    /\ timers # <<>>
    /\ LET due == CHOOSE t \in Range(timers) : \A u \in Range(timers) : t <= u IN
       /\ now < due
       /\ now' = due
       /\ recent' = Recent(recent, due)
    /\ before' = Before
    /\ last' = [call |-> Call("elapse", NoOp, NoSignal, FALSE),
                passes |-> 0, pops |-> <<>>, settles |-> <<>>, resolves |-> <<>>]
    /\ klast' = NoKeyedCall
    /\ UNCHANGED <<config, creation, span, core, aborted, dispatching, waiter>>
    /\ UNCHANGED <<submitted, priority, signal, phase, promise, listeners, admits>>
    /\ UNCHANGED <<limiters, instances, created, submittedTo>>

\* The admissions of the last interval are recorded; maxQueueSize is left at
\* its default.
TimedInit ==
    /\ Created
    /\ before = Before
    /\ span = Interval
    /\ maxQueueSize = Infinity
    /\ options = DefaultOptions
    /\ construction = "returned"

\* Every submission has the default priority, and onIdle() is not called.
TimedNext ==
    \/ /\ submitted < MaxTimedOps
       /\ \E sg \in Signals \cup {NoSignal} : Enqueue(0, sg)
    \/ \E op \in Ops : Invoke(op)
    \/ \E op \in Ops, ok \in BOOLEAN : Complete(op, ok)
    \/ RefillTimeout
    \/ \E s \in Signals : Abort(s)
    \/ OnAbort
    \/ \E reject \in BOOLEAN : ClearQueue(reject)
    \/ Tick
    \/ Elapse

\* When each of three events can happen: a completion (a computation is
\* running and the stack is empty), a timeout firing (one is due and the stack
\* is empty), the next listener of a dispatch (a dispatch is under way).  Each
\* is the guard of its action, and a step of the action changes the state.
CompleteReady == stackEmpty /\ \E op \in Ops : phase[op] = "invoked"
TimeoutReady == stackEmpty /\ \E i \in 1..Len(timers) : now >= timers[i]
DispatchReady == dispatching # <<>>

\* The event loop runs every microtask and continuation that is ready and
\* finishes every dispatch it began; a computation that was started returns or
\* throws; time passes until a pending timeout is due, and the timeout fires.
\* For the last three, weak fairness is written without ENABLED: the event is
\* infinitely often not ready, or infinitely often happens.
TimedFairness ==
    /\ WF_vars(\E op \in Ops : Invoke(op))
    /\ WF_vars(Elapse)
    /\ \/ []<>(~CompleteReady)
       \/ []<><<\E op \in Ops, ok \in BOOLEAN : Complete(op, ok)>>_vars
    /\ []<>(~DispatchReady) \/ []<><<OnAbort>>_vars
    /\ []<>(~TimeoutReady) \/ []<><<RefillTimeout>>_vars

TimedSpec == TimedInit /\ [][TimedNext]_vars /\ TimedFairness

\* ------------------------------------- a limiter whose idleness is awaited
\* onIdle() is called while operations are submitted, finish, are cancelled
\* and are cleared; every submission has the default priority.
AwaitedInit ==
    /\ Created
    /\ before = Before
    /\ span = 0
    /\ maxQueueSize = Infinity
    /\ options = DefaultOptions
    /\ construction = "returned"

AwaitedNext ==
    \/ /\ submitted < MaxAwaitedOps
       /\ \E sg \in Signals \cup {NoSignal} : Enqueue(0, sg)
    \/ \E op \in Ops : Invoke(op)
    \/ \E op \in Ops, ok \in BOOLEAN : Complete(op, ok)
    \/ RefillTimeout
    \/ \E s \in Signals : Abort(s)
    \/ OnAbort
    \/ \E reject \in BOOLEAN : ClearQueue(reject)
    \/ OnIdle
    \/ Tick
    \/ Elapse

AwaitedSpec == AwaitedInit /\ [][AwaitedNext]_vars /\ TimedFairness

\* ------------------------------------------------------------------ claims
\* Operations are numbered in submission order, so a before b in the order the
\* limiter promises is: higher priority, or equal priority and submitted first.
Precedes(pa, a, pb, b) == pa > pb \/ (pa = pb /\ a < b)

\* C1: with a finite concurrency limit, activeCount never exceeds it.
C1_ActiveWithinConcurrency ==
    concurrency # Infinity => activeCount <= concurrency

\* C1 witness: a completion freed a slot of a finite limit, the admission pass
\* filled it again and work is still queued behind the full limit.
C1_Witness ==
    /\ concurrency # Infinity
    /\ activeCount = concurrency
    /\ Len(queue) > 0
    /\ last.call.act = "settled"
    /\ \E i \in 1..Len(last.pops) : last.pops[i].admitted

\* C2: with a rate set, the admissions made at times of one interval of the
\* grid anchored at creation time number at most rate.  admits counts the
\* admissions of the interval of the latest admission; time does not go back,
\* so the bound holding in every state bounds every interval.
C2_RatePerGridWindow ==
    rate # NoRate => admits.count <= rate /\ admits.window <= Window(now)

\* C2 witness: the timer fired in a later interval, the bucket was refilled and
\* a full rate of operations was admitted in that interval with work left.
C2_Witness ==
    /\ rate # NoRate
    /\ last.call.act = "refillTimeout"
    /\ admits.window >= 1
    /\ admits.window = Window(now)
    /\ admits.count = rate
    /\ Len(queue) > 0

\* C3: every operation an admission pass admits precedes, by priority and then
\* by submission order, every operation that was queued behind it at that moment.
C3_AdmitsHighestPriorityFirst ==
    \A i \in 1..Len(last.pops) :
        LET e == last.pops[i] IN
        e.admitted =>
            \A j \in 1..Len(e.behind) :
                Precedes(e.priority, e.op, e.behind[j].priority, e.behind[j].op)

\* C3 witness: an operation was admitted ahead of an earlier submission of lower
\* priority, and of a later submission of its own priority.
C3_Witness ==
    \E i \in 1..Len(last.pops) :
        LET e == last.pops[i] IN
        /\ e.admitted
        /\ \E j \in 1..Len(e.behind) :
              e.behind[j].priority < e.priority /\ e.behind[j].op < e.op
        /\ \E j \in 1..Len(e.behind) :
              e.behind[j].priority = e.priority /\ e.behind[j].op > e.op

\* C4: the queue is in non-increasing priority order, equal priorities in
\* submission order.
C4_QueueOrdered ==
    \A i, j \in 1..Len(queue) :
        i < j => Precedes(priority[queue[i]], queue[i], priority[queue[j]], queue[j])

\* C4 witness: three operations queued, two priorities and a tie among them,
\* the higher priority submitted last.
C4_Witness ==
    /\ Len(queue) = 3
    /\ priority[queue[1]] > priority[queue[3]]
    /\ queue[1] > queue[3]
    /\ \E i \in 1..2 : priority[queue[i]] = priority[queue[i + 1]]

\* What the handler that ran last did to promises.
Rejected(op, how) == [op |-> op, how |-> how, first |-> TRUE]
SettledOps(log) == {log[i].op : i \in 1..Len(log)}
Without(q, op) == SelectSeq(q, LAMBDA x : x # op)
Running(o) == phase[o] \in {"admitted", "invoked"}
WasRunning(o) == before.phase[o] \in {"admitted", "invoked"}

\* An operation that has left the limiter never comes back: it is not queued,
\* admitted or invoked again.
GoneStaysGone == \A o \in Ops : before.phase[o] = "gone" => phase[o] = "gone"

\* An operation that has been admitted is settled by its own continuation only,
\* with the computation's value or error, and is settled once.
AdmittedSettleOwnOutcome ==
    \A i \in 1..Len(last.settles) :
        LET e == last.settles[i] IN
        WasRunning(e.op) =>
            /\ last.call.act = "settled"
            /\ last.call.op = e.op
            /\ e.how = (IF last.call.flag THEN "value" ELSE "error")
            /\ e.first

C6_AlreadyAborted ==
    /\ (last.call.act = "enqueue" /\ last.call.sig \in before.aborted) =>
         LET op == last.call.op IN
         /\ last.settles = <<Rejected(op, "AbortError")>>
         /\ phase[op] = "gone"
         /\ queue = before.queue
         /\ activeCount = before.activeCount
         /\ tokens = before.tokens
         /\ lastRefill = before.lastRefill
         /\ refillTimeoutId = before.refillTimeoutId
         /\ listeners = before.listeners
         /\ last.passes = 0
         /\ last.pops = <<>>
    /\ GoneStaysGone

\* C6 witness: the rejected submission came while work was queued and a whole
\* interval had elapsed, so an admission pass would have refilled and admitted.
C6_Witness ==
    /\ last.call.act = "enqueue"
    /\ last.call.sig \in aborted
    /\ last.settles = <<Rejected(last.call.op, "AbortError")>>
    /\ Len(queue) > 0
    /\ rate # NoRate
    /\ now - lastRefill >= Interval

\* C7: aborting a signal, and any watcher run for an operation that has left the
\* queue, leaves queue, activeCount and tokens alone and settles nothing; an
\* admitted operation is settled by its continuation with its own outcome.
C7_AbortAfterAdmission ==
    /\ (\/ last.call.act = "abort"
        \/ (last.call.act = "onAbort" /\ last.call.op \notin Range(before.queue))) =>
         /\ queue = before.queue
         /\ activeCount = before.activeCount
         /\ tokens = before.tokens
         /\ phase = before.phase
         /\ promise = before.promise
         /\ last.settles = <<>>
    /\ AdmittedSettleOwnOutcome

\* C7 witness: an operation whose signal fired while it was running has completed
\* and its promise carries the computation's outcome.
C7_Witness ==
    /\ last.call.act = "settled"
    /\ last.call.sig \in aborted
    /\ last.settles =
         <<Rejected(last.call.op, IF last.call.flag THEN "value" ELSE "error")>>

\* C8: clearQueue(true) empties the queue and rejects each operation that was
\* queued with QueueClearedError, once; activeCount and tokens are unchanged and
\* the running operations stay running, to be settled with their own outcome.
C8_ClearQueueRejects ==
    /\ (last.call.act = "clearQueue" /\ last.call.flag) =>
         /\ queue = <<>>
         /\ Len(last.settles) = Len(before.queue)
         /\ \A i \in 1..Len(before.queue) :
               last.settles[i] = Rejected(before.queue[i], "QueueClearedError")
         /\ activeCount = before.activeCount
         /\ tokens = before.tokens
         /\ \A o \in Ops :
               WasRunning(o) => phase[o] = before.phase[o] /\ promise[o] = "pending"
    /\ AdmittedSettleOwnOutcome

\* C8 witness: clearQueue(true) has rejected two queued operations while another
\* operation was running.
C8_Witness ==
    /\ last.call.act = "clearQueue"
    /\ last.call.flag
    /\ Len(last.settles) >= 2
    /\ activeCount > 0

\* An operation removed by clearQueue(false): out of the limiter, promise pending.
Dropped(o) == phase[o] = "gone" /\ promise[o] = "pending"
WasDropped(o) == before.phase[o] = "gone" /\ before.promise[o] = "pending"

\* C9: clearQueue(false) empties the queue and settles nothing; the operations it
\* removed have no listener left, stay unsettled in every later step and are
\* never admitted or invoked.
C9_ClearQueueSilent ==
    /\ (last.call.act = "clearQueue" /\ ~last.call.flag) =>
         /\ queue = <<>>
         /\ last.settles = <<>>
         /\ \A o \in Range(before.queue) :
               phase[o] = "gone" /\ promise[o] = "pending" /\ o \notin listeners
    /\ \A o \in Ops :
         WasDropped(o) =>
             /\ phase[o] = "gone"
             /\ promise[o] = "pending"
             /\ o \notin SettledOps(last.settles)

\* C9 witness: the signal of an operation that clearQueue(false) removed has
\* fired afterwards, and the operation is still unsettled.
C9_Witness ==
    /\ last.call.act = "abort"
    /\ \E o \in Ops : Dropped(o) /\ signal[o] = last.call.sig

\* What enqueue() does to a submission it turns away with QueueFullError, and to
\* one it accepts.
TurnedAwayFull(op) ==
    /\ last.settles = <<Rejected(op, "QueueFullError")>>
    /\ phase[op] = "gone"
    /\ queue = before.queue
    /\ activeCount = before.activeCount
    /\ tokens = before.tokens
    /\ lastRefill = before.lastRefill
    /\ refillTimeoutId = before.refillTimeoutId
    /\ listeners = before.listeners
    /\ last.passes = 0
Accepted(op) ==
    /\ op \notin SettledOps(last.settles)
    /\ phase[op] \in {"queued", "admitted"}
    /\ promise[op] = "pending"
    /\ last.passes = 1

\* C10 as stated: every submission made while the queue holds maxQueueSize
\* operations fails with QueueFullError and changes nothing else, and every
\* submission made while it holds fewer is accepted.
C10_Original ==
    last.call.act = "enqueue" =>
        /\ Len(before.queue) = maxQueueSize => TurnedAwayFull(last.call.op)
        /\ Len(before.queue) < maxQueueSize => Accepted(last.call.op)

\* C10 amended: the same, for submissions whose signal is not already aborted.
C10_QueueFull ==
    (last.call.act = "enqueue" /\ last.call.sig \notin before.aborted) =>
        /\ Len(before.queue) = maxQueueSize => TurnedAwayFull(last.call.op)
        /\ Len(before.queue) < maxQueueSize => Accepted(last.call.op)

\* C10 witness: a submission was turned away with QueueFullError while the queue
\* was full behind a running operation and the refill timer was armed.
C10_Witness ==
    /\ last.call.act = "enqueue"
    /\ last.settles = <<Rejected(last.call.op, "QueueFullError")>>
    /\ Len(queue) = maxQueueSize
    /\ activeCount > 0
    /\ refillTimeoutId # NoTimer

\* What the handler that ran last did to onIdle() promises.
Released == {last.resolves[i].waiter : i \in {j \in 1..Len(last.resolves) :
                                                 last.resolves[j].installed}}
Idle == activeCount = 0 /\ Len(queue) = 0
WasIdle == before.activeCount = 0 /\ Len(before.queue) = 0

\* C11: an onIdle() promise that had to wait is resolved only at a moment when
\* activeCount = 0 and pendingCount = 0, and those counts still hold when the
\* handler that resolved it returns.
C11_IdleResolvedOnlyWhenIdle ==
    \A i \in 1..Len(last.resolves) :
        last.resolves[i].installed =>
            /\ last.resolves[i].activeCount = 0
            /\ last.resolves[i].pendingCount = 0
            /\ Idle

\* C11 witness: the completion of the last running operation has resolved a
\* waiter that was installed while the operation ran.
C11_Witness ==
    /\ last.call.act = "settled"
    /\ Released # {}
    /\ submitted >= 2

\* C12 as stated: between handlers, with no abort dispatch under way,
\* activeCount = 0 and pendingCount = 0 leave no onIdle() promise pending.
C12_IdleLeavesNoWaiter ==
    (stackEmpty /\ Idle) => idleResolvers = <<>>

\* C13: onIdle() called with activeCount = 0 and pendingCount = 0 returns a
\* resolved promise, installs nothing and changes nothing in the limiter: no
\* admission pass, no settlement, every variable of the core as before.
C13_OnIdleWhenIdle ==
    (last.call.act = "onIdle" /\ WasIdle) =>
        /\ Len(last.resolves) = 1
        /\ last.resolves[1].waiter = last.call.op
        /\ ~last.resolves[1].installed
        /\ last.resolves[1].first
        /\ last.passes = 0
        /\ last.settles = <<>>
        /\ <<core, opvars, waiter>> = <<before.core, before.opvars, before.waiter>>

\* C13 witness: onIdle() returned resolved on a limiter that had done work, its
\* bucket not full again.
C13_Witness ==
    /\ last.call.act = "onIdle"
    /\ Len(last.resolves) = 1
    /\ ~last.resolves[1].installed
    /\ rate # NoRate
    /\ tokens < rate

\* C14: a step that releases a waiter releases every waiter that was pending,
\* each once, and leaves idleResolvers empty; onIdle() called while something is
\* queued or running installs a waiter that is not resolved by that call; and a
\* pending waiter stays pending through every step that does not release it.
C14_WaitersReleasedTogether ==
    /\ Released # {} =>
         /\ Released = Range(before.idleResolvers)
         /\ Len(last.resolves) = Cardinality(Released)
         /\ \A i \in 1..Len(last.resolves) : last.resolves[i].first
         /\ idleResolvers = <<>>
         /\ \A w \in Waiters : waiter[w] = "none"
    /\ (last.call.act = "onIdle" /\ ~WasIdle) =>
         /\ last.resolves = <<>>
         /\ idleResolvers = Append(before.idleResolvers, last.call.op)
         /\ waiter[last.call.op] = "pending"
    /\ \A w \in Waiters :
         (before.waiter[w] = "pending" /\ w \notin Released) =>
             waiter[w] = "pending" /\ w \in Range(idleResolvers)

\* C14 witness: one step has released two waiters.
C14_Witness ==
    /\ Cardinality(Released) = 2
    /\ idleResolvers = <<>>

\* C14 witness: after a release, the limiter is busy again and a later onIdle()
\* is waiting.
C14_WitnessLater ==
    /\ last.call.act = "onIdle"
    /\ last.resolves = <<>>
    /\ Len(idleResolvers) = 1
    /\ \E o \in Ops : phase[o] = "gone" /\ promise[o] = "settled"

\* The operations an admission pass of the last handler admitted.
Admitted == {last.pops[i].op : i \in {j \in 1..Len(last.pops) : last.pops[j].admitted}}

\* C15: the continuation of an admitted operation settles its promise with the
\* computation's outcome, value or error, settles no other promise with an
\* outcome, gives its slot back (activeCount goes down by one, up by one for each
\* operation the pass admits) and runs one admission pass, which admits a queued
\* operation whenever one is not aborted and the bucket has a token; a failure
\* does all of this as a success does.
C15_CompletionForwardsAndFrees ==
    last.call.act = "settled" =>
        LET op == last.call.op IN
        /\ Len(last.settles) >= 1
        /\ last.settles[1] = Rejected(op, IF last.call.flag THEN "value" ELSE "error")
        /\ \A i \in 2..Len(last.settles) : last.settles[i].how = "AbortError"
        /\ phase[op] = "gone"
        /\ activeCount = before.activeCount - 1 + Cardinality(Admitted)
        /\ last.passes = 1
        /\ ((\E o \in Range(before.queue) : before.signal[o] \notin before.aborted)
               /\ before.tokens > 0)
              => Admitted # {}

\* C15 witness: a computation failed, its promise was rejected with that error
\* and the pass it triggered admitted the operation that was waiting for the slot.
C15_Witness ==
    /\ last.call.act = "settled"
    /\ ~last.call.flag
    /\ last.settles = <<Rejected(last.call.op, "error")>>
    /\ Admitted # {}
    /\ activeCount = concurrency

\* keyedLimit.size, and the limiters in the map.
size == Cardinality({k \in Keys : limiters[k] # NoLimiter})
Present == {limiters[k] : k \in Keys} \ {NoLimiter}
\* The same, as the step that ran last found them.
sizeBefore == Cardinality({k \in Keys : before.limiters[k] # NoLimiter})
PresentBefore == {before.limiters[k] : k \in Keys} \ {NoLimiter}
KeyedApi == {"call", "get", "delete", "clear"}

\* C16: two keys never share a limiter and every limiter in the map is one that
\* was created; call(key) and get(key) on a key in the map use its limiter and
\* create nothing; on a key not in the map they create one limiter, fresh, and
\* store it under the key; size goes up by one exactly then, down by one when
\* delete removes a key, to zero on clear, and is changed by nothing else.
C16_OneLimiterPerKey ==
    /\ \A k1, k2 \in Keys :
          (k1 # k2 /\ limiters[k1] # NoLimiter) => limiters[k1] # limiters[k2]
    /\ \A k \in Keys : limiters[k] <= created
    /\ last.call.act \in {"call", "get"} =>
          LET key == klast.key IN
          /\ IF before.limiters[key] # NoLimiter
             THEN /\ klast.limiter = before.limiters[key]
                  /\ limiters = before.limiters
                  /\ created = before.created
                  /\ size = sizeBefore
             ELSE /\ created = before.created + 1
                  /\ klast.limiter = created
                  /\ limiters = [before.limiters EXCEPT ![key] = created]
                  /\ size = sizeBefore + 1
                  /\ last.call.act = "get" => instances[created] = newLimiter
          /\ last.call.act = "call" =>
                /\ submittedTo[last.call.op] =
                      [key |-> key, limiter |-> klast.limiter]
                /\ instances[klast.limiter].phase[last.call.op] # "new"
    /\ last.call.act = "delete" =>
          size = sizeBefore - (IF before.limiters[klast.key] # NoLimiter THEN 1 ELSE 0)
    /\ last.call.act = "clear" => size = 0
    /\ last.call.act \notin KeyedApi =>
          limiters = before.limiters /\ created = before.created

\* C16 witness: with two keys in the map, a call on a key went to the limiter
\* that key already had, behind the operation running there.
C16_Witness ==
    /\ last.call.act = "call"
    /\ size = 2
    /\ created = 2
    /\ Len(instances[klast.limiter].queue) = 1
    /\ instances[klast.limiter].activeCount = 1

\* C17: delete(key) on a key in the map rejects every operation queued in that
\* key's limiter with QueueClearedError, in queue order, takes the key out of the
\* map and returns true; on a key not in the map it returns false, creates
\* nothing and changes nothing.
C17_DeleteKey ==
    last.call.act = "delete" =>
        LET key == klast.key
            limiter == before.limiters[key]
        IN IF limiter # NoLimiter
           THEN /\ klast.ret
                /\ limiters = [before.limiters EXCEPT ![key] = NoLimiter]
                /\ size = sizeBefore - 1
                /\ created = before.created
                /\ Len(last.settles) = Len(before.instances[limiter].queue)
                /\ \A n \in 1..Len(before.instances[limiter].queue) :
                      last.settles[n] =
                          Rejected(before.instances[limiter].queue[n], "QueueClearedError")
                /\ instances[limiter].queue = <<>>
           ELSE /\ ~klast.ret
                /\ last.settles = <<>>
                /\ <<limiters, instances, created, submittedTo>> =
                      <<before.limiters, before.instances, before.created,
                        before.submittedTo>>

\* C17 witness: delete has rejected a queued operation of one key while the
\* other key stays in the map.
C17_Witness ==
    /\ last.call.act = "delete"
    /\ klast.ret
    /\ Len(last.settles) >= 1
    /\ size = 1

\* C18: clear() rejects every operation queued in a limiter of the map with
\* QueueClearedError, once, leaves those queues empty and the map empty.
C18_ClearAllKeys ==
    last.call.act = "clear" =>
        /\ size = 0
        /\ SettledOps(last.settles) =
              UNION {Range(before.instances[i].queue) : i \in PresentBefore}
        /\ Len(last.settles) = Cardinality(SettledOps(last.settles))
        /\ \A n \in 1..Len(last.settles) :
              last.settles[n].how = "QueueClearedError" /\ last.settles[n].first
        /\ \A i \in PresentBefore : instances[i].queue = <<>>

\* C18 witness: clear() has rejected an operation queued in the limiter created
\* second, while an operation of the other key runs in the limiter created first.
C18_Witness ==
    /\ last.call.act = "clear"
    /\ size = 0
    /\ \E n \in 1..Len(last.settles), o \in Ops :
          /\ submittedTo[last.settles[n].op].limiter = 2
          /\ submittedTo[o] = [key |-> 3 - submittedTo[last.settles[n].op].key,
                               limiter |-> 1]
          /\ instances[1].phase[o] \in {"admitted", "invoked"}

\* C19: a step other than clear() changes the state of at most one limiter, the
\* one it is about; call, get and delete on a key are about that key's limiter
\* or a new one, never a limiter another key has; an event of an operation is
\* about the limiter the operation was submitted to.
C19_KeysIndependent ==
    /\ last.call.act # "clear" =>
          \A j \in Limiters : j # klast.limiter => instances[j] = before.instances[j]
    /\ last.call.act \in {"call", "get", "delete"} =>
          \A k \in Keys :
              (k # klast.key /\ before.limiters[k] # NoLimiter) =>
                  /\ klast.limiter # before.limiters[k]
                  /\ limiters[k] = before.limiters[k]
                  /\ instances[before.limiters[k]] = before.instances[before.limiters[k]]
    /\ last.call.act \in {"fn", "settled", "onAbort"} =>
          klast.limiter = before.submittedTo[last.call.op].limiter

\* C19 witness: with concurrency 1, each of two keys has one operation running,
\* one of them with work queued behind it.
C19_Witness ==
    /\ concurrency = 1
    /\ size = 2
    /\ \A k \in Keys : instances[limiters[k]].activeCount = 1
    /\ \E k \in Keys : Len(instances[limiters[k]].queue) = 1

\* What the claim calls a positive integer, and options createLimit must refuse.
PositiveInteger(x) == x.kind = "number" /\ x.twice > 0 /\ x.twice % 2 = 0
Unlimited(x) == x = Undefined \/ x = PlusInfinity
InvalidOptions(o) ==
    \/ ~(Unlimited(o.concurrency) \/ PositiveInteger(o.concurrency))
    \/ ~(o.rate = Undefined \/ PositiveInteger(o.rate))
    \/ (o.interval.kind = "number" /\ o.interval.twice <= 0)
    \/ ~(Unlimited(o.maxQueueSize) \/ PositiveInteger(o.maxQueueSize))

\* C20: createLimit(options) throws a TypeError, in the call itself, exactly when
\* concurrency or maxQueueSize is neither a positive integer nor Infinity, rate
\* is given and not a positive integer, or interval <= 0, and then no limiter
\* exists; limit(x) with x not a function throws before a promise is made: no
\* promise, no settlement, no admission pass, and queue, activeCount and tokens
\* as before.
C20_UsageErrorsSynchronous ==
    [][/\ (construction = "none" /\ construction' # "none") =>
             /\ construction' = "TypeError" <=> InvalidOptions(options)
             /\ construction' = "returned" =>
                   /\ concurrency' = held(destructure(options).concurrency)
                   /\ maxQueueSize' = held(destructure(options).maxQueueSize)
                   /\ tokens' = IF options.rate = Undefined THEN Infinity ELSE rate'
             /\ promise' = promise
             /\ submitted' = submitted
       /\ construction' = "TypeError" => UNCHANGED <<config, core, opvars>>
       /\ last'.call.act = "enqueueThrow" =>
             /\ UNCHANGED <<core, opvars, waiter>>
             /\ last'.settles = <<>>
             /\ last'.passes = 0]_vars

\* C20 witness: limit(x) threw on a limiter made with concurrency 1, with one
\* operation running and one queued.
C20_Witness ==
    /\ last.call.act = "enqueueThrow"
    /\ construction = "returned"
    /\ options.concurrency = Number(2)
    /\ activeCount = 1
    /\ Len(queue) = 1

\* C20 witness: createLimit threw for rate: Infinity, everything else valid.
C20_WitnessThrown ==
    /\ construction = "TypeError"
    /\ options = [DefaultOptions EXCEPT !.rate = PlusInfinity]

\* ----------------------------------------------------------- the token bucket
\* C21, as stated: with a rate set, a span of one interval ending at any time
\* holds at most rate admissions (recent holds the admissions less than one
\* interval old).
C21_Original ==
    rate # NoRate => Len(recent) <= rate

\* C21, amended: the (rate + 1)-th admission after any admission falls in a
\* later interval of the grid anchored at creation time, so a span of one
\* interval that starts on the grid holds at most rate admissions.
C21_LaterGridWindow ==
    rate # NoRate =>
        /\ \A i, j \in 1..Len(recent) :
                j >= i + rate => Window(recent[j]) > Window(recent[i])
        /\ Len(recent) <= 2 * rate

\* C21 witness: an admission pass admitted an operation less than one interval
\* after rate earlier admissions, on the other side of a refill boundary.
C21_Witness ==
    /\ rate # NoRate
    /\ Len(recent) = rate + 1
    /\ recent[Len(recent)] = now
    /\ recent[1] > now - Interval
    /\ Window(recent[1]) < Window(now)
    /\ \E i \in 1..Len(last.pops) : last.pops[i].admitted

\* C22, as stated: with no handler running and no dispatch under way, the refill
\* timer is armed exactly when the queue is non-empty and the bucket is empty.
C22_TimerArmedIffStarved ==
    (rate # NoRate /\ stackEmpty) =>
        (refillTimeoutId # NoTimer <=> (Len(queue) > 0 /\ tokens = 0))

\* C23: the runtime holds at most one pending timeout of the limiter, the one
\* refillTimeoutId names; without a rate it holds none, tokens stays above zero
\* and work is queued only behind a full concurrency limit.
C23_OneTimerOutstanding ==
    /\ timers = IF refillTimeoutId = NoTimer THEN <<>> ELSE <<refillTimeoutId>>
    /\ rate = NoRate =>
          /\ timers = <<>>
          /\ tokens > 0
          /\ Len(queue) > 0 => activeCount >= concurrency

\* C23 witness: with the timer armed, a completion ran an admission pass that
\* admitted nothing and found work queued behind an empty bucket, so it asked
\* for the timer again.
C23_Witness ==
    /\ rate # NoRate
    /\ last.call.act = "settled"
    /\ last.passes > 0
    /\ \A i \in 1..Len(last.pops) : ~last.pops[i].admitted
    /\ Len(queue) > 0
    /\ tokens = 0
    /\ timers = <<refillTimeoutId>>

\* C23 witness: without a rate, work waits behind the concurrency limit alone.
C23_WitnessNoRate ==
    /\ rate = NoRate
    /\ Len(queue) > 0
    /\ activeCount = concurrency
    /\ last.passes > 0

\* C24: with a rate set, tokens stays within 0..rate.
C24_TokensWithinRate ==
    rate # NoRate => (0 <= tokens /\ tokens <= rate)

\* C24 witness: the first submission came two intervals after creation, so its
\* pass, the first one run, refilled the full bucket for both intervals at once
\* and then admitted from it.
C24_Witness ==
    /\ rate # NoRate
    /\ submitted = 1
    /\ last.call.act = "enqueue"
    /\ last.passes = 1
    /\ lastRefill = 2 * Interval
    /\ phase[1] = "admitted"
    /\ tokens = rate - 1

\* C25: lastRefill stays on the grid of whole intervals from creation time and
\* never passes the clock; when a handler has run an admission pass, less than
\* one interval separates it from the clock.
C25_WindowStartOnGrid ==
    rate # NoRate =>
        /\ lastRefill >= 0
        /\ lastRefill % Interval = 0
        /\ lastRefill <= now
        /\ last.passes > 0 => now - lastRefill < Interval

\* C25 witness: a pass run off the grid, in a later interval, moved lastRefill
\* to the start of that interval and not to the current time.
C25_Witness ==
    /\ rate # NoRate
    /\ last.passes > 0
    /\ lastRefill >= Interval
    /\ now = lastRefill + 1

\* ------------------------------------------------ admission and cancellation
\* The bucket as refillTokens() leaves it at the current time.
Refilled ==
    IF before.now - before.lastRefill >= Interval
    THEN Min(rate, before.tokens
                     + rate * ((before.now - before.lastRefill) \div Interval))
    ELSE before.tokens

\* The operations the handler shifted off the queue and found aborted.
PoppedAborted ==
    {last.pops[i].op : i \in {j \in 1..Len(last.pops) : ~last.pops[j].admitted}}

\* C26: an operation the admission loop shifts off the queue with its signal
\* already aborted is rejected with AbortError and never invoked; the handler
\* counts as active, and takes tokens for, only the operations it admitted; and
\* when operations were queued behind the aborted one, the loop goes on to the
\* first of them in the same pass.
C26_AbortedAtAdmission ==
    /\ PoppedAborted # {} =>
         /\ \A i \in 1..Len(last.pops) :
               LET e == last.pops[i] IN
               ~e.admitted =>
                   /\ \E k \in 1..Len(last.settles) :
                         last.settles[k] = Rejected(e.op, "AbortError")
                   /\ phase[e.op] = "gone"
                   /\ Len(e.behind) > 0 =>
                         /\ i < Len(last.pops)
                         /\ last.pops[i + 1].op = e.behind[1].op
         /\ activeCount = before.activeCount + Cardinality(Admitted)
                             - (IF last.call.act = "settled" THEN 1 ELSE 0)
         /\ rate # NoRate => tokens = Refilled - Cardinality(Admitted)
         /\ rate = NoRate => tokens = before.tokens
    /\ GoneStaysGone

\* C26 witness: a pass shifted an aborted operation off the queue, rejected it,
\* and admitted the operation behind it.
C26_Witness ==
    \E i \in 1..Len(last.pops) :
        /\ ~last.pops[i].admitted
        /\ i < Len(last.pops)
        /\ last.pops[i + 1].admitted
        /\ promise[last.pops[i].op] = "settled"

\* C27: an abort listener is registered for exactly the operations that are in
\* the queue and were submitted with a signal, between any two handlers; so a
\* listener goes away in the step that takes its operation out of the queue
\* (admission, clearQueue, the listener firing) and in no other.
C27_WatcherIffQueuedWithSignal ==
    listeners = {o \in Range(queue) : signal[o] # NoSignal}

\* C27 witness: clearQueue(false) removed an operation submitted with a signal;
\* its promise is pending still and no listener is left.
C27_Witness ==
    /\ last.call.act = "clearQueue"
    /\ ~last.call.flag
    /\ \E o \in Ops : Dropped(o) /\ signal[o] # NoSignal
    /\ listeners = {}

\* C27 witness: in the middle of a dispatch, one watcher has fired and another
\* operation on the same signal is queued with its watcher still registered.
C27_WitnessDispatch ==
    /\ last.call.act = "onAbort"
    /\ dispatching # <<>>
    /\ \E o \in listeners : signal[o] = Head(dispatching)

\* ------------------------------------------------------------- the lifecycle
\* The steps an operation's phase may take in one handler: queued on
\* submission (and perhaps admitted by the same call's pass) or turned away,
\* admitted or removed from the queue, invoked once admitted, gone once invoked.
LifecycleStep(from, to) ==
    \/ to = from
    \/ from = "new" /\ to \in {"queued", "admitted", "gone"}
    \/ from = "queued" /\ to \in {"admitted", "gone"}
    \/ from = "admitted" /\ to = "invoked"
    \/ from = "invoked" /\ to = "gone"

\* C28: an operation is queued, then admitted, invoked and settled with its
\* computation's value or error, or else removed from the queue and rejected
\* with AbortError or QueueClearedError (or dropped by clearQueue(false)).  Its
\* computation is invoked once, by the microtask of an admitted operation; its
\* promise is settled once; and a value or an error settles only an operation
\* that was invoked.
C28_Lifecycle ==
    /\ \A o \in Ops :
         /\ LifecycleStep(before.phase[o], phase[o])
         /\ (phase[o] = "invoked" /\ before.phase[o] # "invoked") =>
               /\ before.phase[o] = "admitted"
               /\ last.call.act = "fn"
               /\ last.call.op = o
         /\ before.promise[o] = "settled" => (promise[o] = "settled" /\ phase[o] = "gone")
         /\ (phase[o] = "gone" /\ before.phase[o] # "gone") =>
               \/ \E i \in 1..Len(last.settles) : last.settles[i].op = o
               \/ /\ before.phase[o] = "queued"
                  /\ last.call.act = "clearQueue"
                  /\ ~last.call.flag
    /\ \A i \in 1..Len(last.settles) :
         LET e == last.settles[i] IN
         /\ e.first
         /\ before.promise[e.op] # "settled"
         /\ \A j \in 1..Len(last.settles) : last.settles[j].op = e.op => j = i
         /\ phase[e.op] = "gone"
         /\ e.how \in {"value", "error"} => before.phase[e.op] = "invoked"
         /\ e.how = "QueueClearedError" => before.phase[e.op] = "queued"
         /\ e.how = "AbortError" => before.phase[e.op] \in {"new", "queued"}
         /\ e.how = "QueueFullError" => before.phase[e.op] = "new"

\* C28 witness: an operation that waited in the queue while a signal was aborted
\* and clearQueue(false) dropped another has been admitted and invoked, and
\* its computation's failure has just settled its promise.
C28_Witness ==
    /\ last.call.act = "settled"
    /\ ~last.call.flag
    /\ last.settles = <<Rejected(last.call.op, "error")>>
    /\ last.call.op > 1
    /\ aborted # {}
    /\ \E o \in Ops : Dropped(o) /\ o < last.call.op

\* ---------------------------------------------------------------- progress
\* An operation the limiter holds: queued, admitted or running.
Held(o) == phase[o] \in {"queued", "admitted", "invoked"}

\* An operation that reached a terminal state: its promise is settled, or
\* clearQueue(false) dropped it.
Terminal(o) == promise[o] = "settled" \/ Dropped(o)

\* C29: whenever the limiter holds an operation, a later state has every
\* submitted operation terminal and the queue empty.  An operation held now is
\* submitted then, so each held operation reaches a terminal state and a
\* non-empty queue drains.
C29_EveryOperationSettles ==
    (\E o \in Ops : Held(o))
        ~> (Len(queue) = 0 /\ \A o \in Ops : phase[o] # "new" => Terminal(o))

\* C29 witness: with rate 1, the second operation waited for a token and
\* clearQueue(false) dropped it, cancelling the timer; the third then waited,
\* the timer was armed again, and its callback has just admitted the third at
\* the first refill boundary.
C29_Witness ==
    /\ rate = 1
    /\ Dropped(2)
    /\ last.call.act = "refillTimeout"
    /\ lastRefill = Interval
    /\ \E i \in 1..Len(last.pops) : last.pops[i].admitted /\ last.pops[i].op = 3
    /\ phase[3] = "admitted"

\* C30: every onIdle() promise that is pending is resolved in the end.
C30_EveryWaiterResolved ==
    \A w \in Waiters : (waiter[w] = "pending") ~> (waiter[w] # "pending")

\* C30 witness: the timer callback found nothing queued and nothing running,
\* and resolved a waiter that was pending: the limiter became idle when an
\* abort watcher removed the last queued operation.
C30_Witness ==
    /\ last.call.act = "refillTimeout"
    /\ last.pops = <<>>
    /\ aborted # {}
    /\ \E i \in 1..Len(last.resolves) : last.resolves[i].installed

\* C30 witness: clearQueue(false) emptied the queue with nothing running and
\* resolved a waiter that was pending.
C30_WitnessCleared ==
    /\ last.call.act = "clearQueue"
    /\ ~last.call.flag
    /\ \E o \in Ops : Dropped(o)
    /\ \E i \in 1..Len(last.resolves) : last.resolves[i].installed

\* ------------------------------------------------------------- the counters
\* The operations that were admitted and whose computation has not completed.
InFlight == {o \in Ops : Running(o)}

\* C31: activeCount is the number of operations admitted and not yet
\* completed, and is never negative; a step changes it by the admissions it
\* makes less the completions it handles, so clearQueue, an abort, an abort
\* watcher and a submission rejected on entry leave it as it was.
C31_ActiveCountExact ==
    /\ activeCount = Cardinality(InFlight)
    /\ activeCount >= 0
    /\ activeCount = before.activeCount
          + Cardinality({i \in 1..Len(last.pops) : last.pops[i].admitted})
          - Cardinality({i \in 1..Len(last.settles) :
                           last.settles[i].how \in {"value", "error"}})
    /\ last.call.act \in {"clearQueue", "abort", "onAbort", "onIdle", "fn", "tick"}
          => activeCount = before.activeCount
    /\ (last.call.act = "enqueue" /\ phase[last.call.op] = "gone")
          => activeCount = before.activeCount
    /\ activeCount # before.activeCount
          => last.call.act \in {"enqueue", "settled", "refillTimeout"}

\* C31 witness: clearQueue(true) rejected a queued operation while one
\* operation was admitted and another was running; activeCount is still two.
C31_Witness ==
    /\ last.call.act = "clearQueue"
    /\ last.call.flag
    /\ Len(last.settles) > 0
    /\ activeCount = 2
    /\ \E a, b \in InFlight : phase[a] = "admitted" /\ phase[b] = "invoked"

\* C32: pendingCount never exceeds maxQueueSize, and the size check reads the
\* queue alone: a submission whose signal is not aborted is rejected with
\* QueueFullError exactly when maxQueueSize operations are queued, whatever
\* activeCount is; otherwise it is queued or admitted at once.
C32_QueueWithinMax ==
    /\ Len(queue) <= maxQueueSize
    /\ (/\ last.call.act = "enqueue"
        /\ ~(last.call.sig # NoSignal /\ last.call.sig \in before.aborted))
          => LET op == last.call.op IN
             IF Len(before.queue) >= maxQueueSize
             THEN /\ Rejected(op, "QueueFullError") \in Range(last.settles)
                  /\ phase[op] = "gone"
                  /\ queue = before.queue
                  /\ activeCount = before.activeCount
             ELSE /\ phase[op] \in {"queued", "admitted"}
                  /\ promise[op] = "pending"

\* C32 witness: with every slot busy and more operations running than
\* maxQueueSize, one submission was queued, filling the queue, and the next has
\* just been rejected with QueueFullError.
C32_Witness ==
    /\ last.call.act = "enqueue"
    /\ last.settles = <<Rejected(last.call.op, "QueueFullError")>>
    /\ Len(queue) = maxQueueSize
    /\ activeCount = concurrency
    /\ activeCount > maxQueueSize

\* C32 witness: a submission that could be admitted at once was accepted and
\* admitted while activeCount was already maxQueueSize.
C32_WitnessAdmitted ==
    /\ last.call.act = "enqueue"
    /\ phase[last.call.op] = "admitted"
    /\ maxQueueSize # Infinity
    /\ activeCount > maxQueueSize

\* C33: with no handler running and no dispatch under way, the queue is not
\* left waiting while a slot is free and a token is stored; and whenever the
\* queue is non-empty, activeCount has reached concurrency or the refill timer
\* is armed and pending in the runtime.
C33_WorkConserving ==
    /\ stackEmpty => ~(Len(queue) > 0 /\ activeCount < concurrency /\ tokens > 0)
    /\ Len(queue) > 0 =>
          \/ activeCount >= concurrency
          \/ refillTimeoutId # NoTimer /\ refillTimeoutId \in Range(timers)

\* C33 witness: an abort watcher removed one of two queued operations; the
\* other still waits for a token with a slot free and the timer armed.
C33_Witness ==
    /\ last.call.act = "onAbort"
    /\ Len(last.settles) > 0
    /\ Len(queue) > 0
    /\ activeCount < concurrency
    /\ tokens = 0
    /\ refillTimeoutId # NoTimer

\* C33 witness: the timer callback refilled the bucket but every slot is busy,
\* so work stays queued with a token stored and no timer armed.
C33_WitnessBusy ==
    /\ last.call.act = "refillTimeout"
    /\ Len(queue) > 0
    /\ tokens > 0
    /\ activeCount = concurrency
    /\ refillTimeoutId = NoTimer

\* ------------------------------------------- a key deleted and created again
\* The operations in flight that were submitted under a key, and those that
\* were submitted to a limiter.
InFlightUnder(key) ==
    {o \in Ops : /\ submittedTo[o].key = key
                 /\ instances[submittedTo[o].limiter].phase[o] \in {"admitted", "invoked"}}
InFlightIn(i) ==
    {o \in Ops : /\ submittedTo[o].limiter = i
                 /\ instances[i].phase[o] \in {"admitted", "invoked"}}

\* C34, as stated: the operations in flight that were submitted under one key
\* never number more than the concurrency option.
C34_Original ==
    \A key \in Keys : Cardinality(InFlightUnder(key)) <= concurrency

\* C34, amended: the operations in flight that were submitted to one limiter
\* of the keyed limiter never number more than the concurrency option, and are
\* what that limiter's activeCount counts; the limiter a key is given after a
\* delete or clear starts with none.
C34_PerLimiter ==
    \A i \in Limiters :
        /\ Cardinality(InFlightIn(i)) <= concurrency
        /\ i <= created => instances[i].activeCount = Cardinality(InFlightIn(i))

\* C34 witness: an operation submitted under a key was admitted, the key was
\* deleted and a later call created its limiter again, which has just admitted
\* a second operation under the key while the first is still in flight.
C34_Witness ==
    /\ last.call.act = "call"
    /\ klast.limiter = 2
    /\ limiters[klast.key] = 2
    /\ InFlightIn(2) = {last.call.op}
    /\ \E o \in InFlightIn(1) : submittedTo[o].key = klast.key
    /\ Cardinality(InFlightUnder(klast.key)) > concurrency

TypeOK ==
    /\ activeCount \in 0..Cardinality(Ops)
    /\ Range(queue) \subseteq Ops
    /\ \A o \in Ops : phase[o] = "queued" <=> o \in Range(queue)
    /\ listeners \subseteq Range(queue)

====
